---------------------------- MODULE Spec2Model ----------------------------
(***************************************************************************)
(* A model of the news pipeline: the ingestor's cycle loop, the            *)
(* parser/deduper workers with their shared key/value store, and the       *)
(* normalizer, enricher and indexer stages that carry a record forward.    *)
(*                                                                         *)
(* Text is a sequence of one-character strings.  Markup is a sequence of   *)
(* tokens: one-character strings and tag tokens such as "<p>"; the lexing  *)
(* of markup into tokens is the HTML library's work and is not modelled.   *)
(***************************************************************************)
EXTENDS Integers, Sequences, FiniteSets, TLC

(***************************************************************************)
(* Bounds of the model.                                                    *)
(***************************************************************************)
MaxTicks == 2
TickHours == 13
MaxFaults == 1
MaxCycles == 1
MaxLoopCycles == 2
MaxCycleDuration == 1
MaxMonthRolls == 1
BatchSize == 2
NumFeeds == 2
MaxEntries == 2
MaxRuns == 2
MaxPieces == 12
MaxPage == 3
MaxSize == 2
MaxImportTime == 2
MaxRequests == 1

(***************************************************************************)
(* Program constants.                                                      *)
(***************************************************************************)
MinTextLen == 100
CacheLimit == 10000
DEDUP_WINDOW_HOURS == 24
INGEST_INTERVAL_MINUTES == 5
RetryWait == 60

None == "None"
\* an absent text value (None where a str is expected)
NoText == <<"<None>">>

(***************************************************************************)
(* Strings.                                                                *)
(***************************************************************************)
Rep(c, n) == [i \in 1..n |-> c]

\* s[:n]
Prefix(s, n) == SubSeq(s, 1, IF Len(s) < n THEN Len(s) ELSE n)

Whitespace == {" ", "\n", "\t"}

IsSpace(c) == c \in Whitespace

UpperCase ==
    <<"A", "B", "C", "D", "E", "F", "G", "H", "I", "J", "K", "L", "M", "N",
      "O", "P", "Q", "R", "S", "T", "U", "V", "W", "X", "Y", "Z">>

LowerCase ==
    <<"a", "b", "c", "d", "e", "f", "g", "h", "i", "j", "k", "l", "m", "n",
      "o", "p", "q", "r", "s", "t", "u", "v", "w", "x", "y", "z">>

\* str.lower() of one character
LowerChar(c) ==
    IF \E k \in DOMAIN UpperCase : UpperCase[k] = c
    THEN LowerCase[CHOOSE k \in DOMAIN UpperCase : UpperCase[k] = c]
    ELSE c

Lower(s) == [i \in 1..Len(s) |-> LowerChar(s[i])]

\* str.strip(): drop leading and trailing whitespace
Strip(s) ==
    IF \A i \in 1..Len(s) : IsSpace(s[i]) THEN <<>>
    ELSE LET lo == CHOOSE i \in 1..Len(s) :
                      ~IsSpace(s[i]) /\ \A j \in 1..(i - 1) : IsSpace(s[j])
             hi == CHOOSE i \in 1..Len(s) :
                      ~IsSpace(s[i]) /\ \A j \in (i + 1)..Len(s) : IsSpace(s[j])
         IN  SubSeq(s, lo, hi)

\* str.splitlines(): the lines of s, without their line ends
RECURSIVE SplitLines(_)
SplitLines(s) ==
    IF s = <<>> THEN <<>>
    ELSE LET nl == {i \in 1..Len(s) : s[i] = "\n"}
         IN  IF nl = {} THEN <<s>>
             ELSE LET k == CHOOSE i \in nl : \A j \in nl : i <= j
                  IN  <<SubSeq(s, 1, k - 1)>> \o SplitLines(SubSeq(s, k + 1, Len(s)))

\* str.split("  "): split at each (leftmost, non-overlapping) pair of spaces
RECURSIVE SplitDoubleSpace(_)
SplitDoubleSpace(s) ==
    LET at == {i \in 1..(Len(s) - 1) : s[i] = " " /\ s[i + 1] = " "}
    IN  IF at = {} THEN <<s>>
        ELSE LET k == CHOOSE i \in at : \A j \in at : i <= j
             IN  <<SubSeq(s, 1, k - 1)>> \o SplitDoubleSpace(SubSeq(s, k + 2, Len(s)))

\* str.split(): the maximal runs of non-whitespace characters
RECURSIVE SplitWords(_)
SplitWords(s) ==
    LET t == Strip(s)
    IN  IF t = <<>> THEN <<>>
        ELSE LET sp == {i \in 1..Len(t) : IsSpace(t[i])}
             IN  IF sp = {} THEN <<t>>
                 ELSE LET k == CHOOSE i \in sp : \A j \in sp : i <= j
                      IN  <<SubSeq(t, 1, k - 1)>> \o SplitWords(SubSeq(t, k + 1, Len(t)))

\* ' '.join(parts)
RECURSIVE JoinSpace(_)
JoinSpace(parts) ==
    IF parts = <<>> THEN <<>>
    ELSE IF Len(parts) = 1 THEN parts[1]
    ELSE parts[1] \o <<" ">> \o JoinSpace(Tail(parts))

RECURSIVE Flatten(_)
Flatten(ss) == IF ss = <<>> THEN <<>> ELSE ss[1] \o Flatten(Tail(ss))

NonEmpty(ss) == SelectSeq(ss, LAMBDA x : x # <<>>)

StripAll(ss) == [i \in 1..Len(ss) |-> Strip(ss[i])]

SplitAllDoubleSpace(ss) == [i \in 1..Len(ss) |-> SplitDoubleSpace(ss[i])]

(***************************************************************************)
(* helpers.clean_html                                                      *)
(***************************************************************************)
OpenDropped == {"<script>", "<style>"}
CloseDropped == {"</script>", "</style>"}
IsTag(tok) == Len(tok) > 1

\* soup(["script", "style"]) ... decompose(): drop the subtrees.  A token is
\* inside a dropped subtree when the nearest dropped tag before it opens one.
InDropped(toks, i) ==
    \E j \in 1..(i - 1) :
        /\ toks[j] \in OpenDropped
        /\ \A k \in (j + 1)..(i - 1) : toks[k] \notin CloseDropped

Decompose(toks) ==
    LET tagged == [i \in 1..Len(toks) |-> <<i, toks[i]>>]
        kept == SelectSeq(tagged, LAMBDA p :
                    /\ p[2] \notin OpenDropped \cup CloseDropped
                    /\ ~InDropped(toks, p[1]))
    IN  [n \in 1..Len(kept) |-> kept[n][2]]

\* soup.get_text(): the character data, tags left out
GetText(toks) == SelectSeq(toks, LAMBDA t : ~IsTag(t))

clean_html(html_content) ==
    LET text == GetText(Decompose(html_content))
        lines == StripAll(SplitLines(text))
        chunks == StripAll(Flatten(SplitAllDoubleSpace(lines)))
    IN  JoinSpace(NonEmpty(chunks))

(***************************************************************************)
(* ParserDeduper.clean_article_text                                        *)
(***************************************************************************)
\* mutant: the length check is left out
clean_article_text_unchecked(raw_content) ==
    Strip(JoinSpace(SplitWords(clean_html(raw_content))))

clean_article_text(raw_content) ==
    LET cleaned_text == JoinSpace(SplitWords(clean_html(raw_content)))
    IN  IF Len(Strip(cleaned_text)) < MinTextLen THEN <<>>
        ELSE Strip(cleaned_text)

(***************************************************************************)
(* helpers.create_article_hash.  SHA-256 is taken to be collision free:    *)
(* a digest is represented by the string that was hashed.                  *)
(***************************************************************************)
create_article_hash(title, content) ==
    Lower(Strip(title)) \o Lower(Strip(content))

(***************************************************************************)
(* The raw articles the model feeds to the parser.                         *)
(***************************************************************************)
TitleA == <<"N", "a">>
TitleAPadded == <<" ", "n", "A", " ">>
TitleB == <<"B">>

\* 100 characters once cleaned
ContentLong ==
    <<"<p>">> \o Rep("a", 60) \o <<" ", " ", "\n">> \o Rep("b", 39) \o <<"</p>">>
\* other markup and letter case, the same 100 characters up to case
ContentLongVariant ==
    <<"<script>", "x", "</script>">> \o Rep("A", 60) \o <<"\n">> \o Rep("B", 39)
\* more than 100 characters of markup, 99 characters once cleaned
ContentShort ==
    <<"<p>">> \o Rep("a", 60) \o <<" ", " ", " ", " ">> \o Rep("b", 38)
        \o <<"<style>">> \o Rep("x", 5) \o <<"</style>", "</p>">>

RawArticle(id, url, title, content) ==
    [id |-> id, url |-> url, title |-> title, content |-> content,
     author |-> None, source |-> "feeds.example", published_at |-> 1,
     scraped_at |-> 2, metadata |-> [feed_url |-> "f1"]]

RawMessages ==
    << RawArticle("id1", "u1", TitleA, ContentLong),
       RawArticle("id2", "u2", TitleAPadded, ContentLongVariant),
       RawArticle("id3", "u3", TitleB, ContentShort) >>

\* two raw articles that differ in the title and in the text and agree in
\* the title followed by the text, and a third with the title and the text
\* of the first
CollideMessages ==
    << RawArticle("id1", "u1", <<"N", "a">>,
                  <<"<p>">> \o Rep("a", MinTextLen) \o <<"</p>">>),
       RawArticle("id2", "u2", <<"N">>,
                  <<"<p>">> \o Rep("a", MinTextLen + 1) \o <<"</p>">>),
       RawArticle("id3", "u3", <<"n", "a", " ">>,
                  <<"<p>">> \o Rep("A", MinTextLen) \o <<"</p>">>) >>

\* the raw articles of the pipeline specification: two that differ in the hash
PipelineMessages ==
    << RawArticle("id1", "u1", TitleA, ContentLong),
       RawArticle("id5", "u5", TitleB, ContentLongVariant) >>

\* three sentences, 204 characters once cleaned
ContentSentences ==
    <<"<p>">> \o Rep("a", 99) \o <<".", " ">> \o Rep("b", 99)
        \o <<".", " ", "c", ".", "</p>">>

\* the raw articles behind the records the enricher specifications start from
EnricherMessages ==
    << RawArticle("id1", "u1", TitleA, ContentLong),
       RawArticle("id6", "u6", TitleB, ContentSentences) >>

\* three versions of one article, published under the same id
VersionMessages ==
    << RawArticle("id1", "u1", TitleA, ContentLong),
       RawArticle("id1", "u1", TitleB, ContentLongVariant),
       RawArticle("id1", "u1", TitleB, ContentSentences) >>

Message(key, value) == [key |-> key, value |-> value]

\* mutant: the record is put in front of the records of the topic
PublishedFirst(topic, message, ok) ==
    IF ok THEN <<message>> \o topic ELSE topic

\* the topic after KafkaClient.send_message, which returns when the send is
\* acknowledged (flush, future.get) or raises: the record is appended or not
Published(topic, message, ok) ==
    IF ok THEN Append(topic, message) ELSE topic

\* mutant: a message that failed is taken again
AfterMessageRetry(offset, ok) == IF ok THEN offset + 1 ELSE offset

\* the consumer's position after a message: the loop logs an exception and
\* goes on with the next message
AfterMessage(offset, ok) == offset + 1

\* pydantic validation of RawArticle(**data): the required strings are strings
RawArticleValid(v) ==
    /\ v.id # None /\ v.url # None /\ v.title # NoText
    /\ v.content # NoText /\ v.source # None

Workers == {1, 2}

VARIABLES
    \* the bus and the parser/deduper workers
    rawTopic,       \* raw_articles: sequence of messages
    rawPending,     \* indexes of rawTopic awaiting delivery to the group
    pc,             \* worker -> position in process_messages
    msg,            \* worker -> index of the raw message in hand (0: none)
    cleaned,        \* worker -> cleaned text of the article in hand
    pending_hash,   \* worker -> content hash in is_duplicate
    seen_hashes,    \* worker -> ParserDeduper.seen_hashes
    seen_other,     \* worker -> number of further hashes in seen_hashes
    redis,          \* the store: set of [key, exp] (exp: expiry time)
    redisUp,        \* the store answers
    now,            \* hours
    ticks,          \* number of Tick steps taken
    faults,         \* number of crashes and redeliveries so far
    cleanedTopic,   \* cleaned_articles: sequence of messages
    acceptLog,      \* history: is_duplicate returned False
    dropLog,        \* history: articles not published, with the reason
    \* normalizer, enricher, indexer
    enable_translation, \* Normalizer.enable_translation
    llm,            \* LLMEnricher.llm is set (a credential was configured)
    cleanedOffset,  \* messages of cleanedTopic the normalizer has consumed
    normalizedTopic,
    normalizedOffset,
    enrichedTopic,
    enrichedOffset,
    batch,          \* ESIndexer.batch
    esDocs,         \* the search store: set of [index, id, source]
    esIndices,      \* the indices that exist in the search store
    month,          \* UTC month of the indexer's host
    indexerPc,      \* "run" or "stopped"
    \* ingestor
    ingPc,          \* position in NewsIngestor.run
    feed_results,   \* feed -> the list fetch_feed returned (Pending: not yet)
    api_articles,
    all_articles,
    pubIdx,         \* index in all_articles of the next article to publish
    nextId,         \* the next fresh uuid
    newsapi_key,    \* NEWSAPI_KEY is set
    ingNow,         \* seconds
    cycleStart,     \* when the cycle in progress (or the last one) started
    prevStart,      \* history: start of the cycle before (-1: none)
    prevEnd,        \* history: end of the cycle before
    prevRaised,     \* history: the cycle before raised
    cycles,         \* number of cycles started
    producerClosed, \* kafka_client.close() was called
    getLog,         \* history: feed -> GETs in this cycle
    feedLog,        \* history: feed -> what the feed answered in this cycle
    publishLog,     \* history: publish attempts of this cycle
    \* the enricher, call by call
    enrPc,          \* position in enrich_article: "idle", "calls", "publish"
    enrMsg,         \* index in normalizedTopic of the message in hand
    enrStarted,     \* the model calls started for the article in hand
    enrDone,        \* the model calls that have returned
    enrRaised,      \* the model calls that raised
    enrResults,     \* call -> what the method around the call returned
    enrRuns,        \* number of messages the enricher was handed
    enrichLog,      \* history: [run, src, at, raised, calls, ok, out] per run
    llmAnswer,      \* call -> what the model answers to the call's prompt
    \* the consumer group of the indexer, and histories of the consumers
    committed,      \* the offset of enrichedTopic committed for indexer_group
    bulkLog,        \* history: the bulk requests [first, last, ok, at,
                    \* month, targets]
    skipLog,        \* history: <<stage, offset>> of the messages that failed
    ensureLog,      \* history: the names ensure_index_exists was called with
    \* the Query API
    es_available,   \* ES_AVAILABLE
    apiResponse,    \* the last response: [app, op, request, status, ...]
    mockTimes,      \* simple_api: published_at of its three mock articles
    served,         \* number of requests answered
    \* the enricher's methods on one text
    article_text,   \* the text a method of the enricher is called with
    method,         \* the method that ran, "none" before
    submitted       \* the text the method gave the model, or its fallback

parserVars ==
    <<rawTopic, rawPending, pc, msg, cleaned, pending_hash, seen_hashes,
      seen_other, redis, redisUp, now, ticks, faults, cleanedTopic,
      acceptLog, dropLog>>

pipelineVars ==
    <<enable_translation, llm, cleanedOffset, normalizedTopic,
      normalizedOffset, enrichedTopic, enrichedOffset, batch, esDocs,
      esIndices, month, indexerPc>>

ingestorVars ==
    <<ingPc, feed_results, api_articles, all_articles, pubIdx, nextId,
      newsapi_key, ingNow, cycleStart, prevStart, prevEnd, prevRaised, cycles,
      producerClosed, getLog, feedLog, publishLog>>

enricherVars ==
    <<enrPc, enrMsg, enrStarted, enrDone, enrRaised, enrResults, enrRuns,
      enrichLog, llmAnswer>>

consumerVars == <<committed, bulkLog, skipLog, ensureLog>>

apiVars == <<es_available, apiResponse, mockTimes, served>>

textVars == <<article_text, method, submitted>>

vars ==
    <<parserVars, pipelineVars, ingestorVars, enricherVars, consumerVars,
      apiVars, textVars>>

dedup_window_hours == DEDUP_WINDOW_HOURS
dedup_key_prefix == "article_hash:"

RedisKey(content_hash) == <<dedup_key_prefix, content_hash>>

\* redis_client.exists(key): a key past its expiry is gone
RedisExistsKey(key) == \E e \in redis : e.key = key /\ now < e.exp

\* redis_client.setex(key, ttl, "1")
RedisSetexKey(key, ttl) ==
    {e \in redis : e.key # key} \cup {[key |-> key, exp |-> now + ttl]}

LastAccept(h) ==
    LET at == {a.at : a \in {b \in acceptLog : b.hash = h}}
    IN  IF at = {} THEN -1 ELSE CHOOSE t \in at : \A u \in at : t >= u

(***************************************************************************)
(* ParserDeduper.process_article, up to the call of is_duplicate, and      *)
(* is_duplicate's look into the local cache.                               *)
(***************************************************************************)
\* mutant: the title is passed on as it came, with its surrounding whitespace
CleanedArticleRawTitle(raw_article, cleaned_text, content_hash, is_duplicate) ==
    [id |-> raw_article.id, url |-> raw_article.url,
     title |-> raw_article.title, text |-> cleaned_text,
     author |-> raw_article.author, source |-> raw_article.source,
     published_at |-> raw_article.published_at,
     scraped_at |-> raw_article.scraped_at,
     content_hash |-> content_hash, is_duplicate |-> is_duplicate,
     metadata |-> raw_article.metadata]

CleanedArticle(raw_article, cleaned_text, content_hash, is_duplicate) ==
    [id |-> raw_article.id, url |-> raw_article.url,
     title |-> Strip(raw_article.title), text |-> cleaned_text,
     author |-> raw_article.author, source |-> raw_article.source,
     published_at |-> raw_article.published_at,
     scraped_at |-> raw_article.scraped_at,
     content_hash |-> content_hash, is_duplicate |-> is_duplicate,
     metadata |-> raw_article.metadata]

\* mutant: the fallback reports every article as a duplicate
FallbackAlwaysDuplicate(w, h) == TRUE

\* the except branch of is_duplicate: the local cache alone decides
FallbackIsDuplicate(w, h) == h \in seen_hashes[w]

\* history: is_duplicate returned False for the article in hand; an earlier
\* acceptance of the same article is replaced
Accept(w, h, store) ==
    LET id == rawTopic[msg[w]].value.id IN
    acceptLog' = {a \in acceptLog : a.id # id} \cup
        {[id |-> id, hash |-> h, at |-> now, store |-> store]}

\* process_article up to the call of is_duplicate: validation, cleaning
\* (ValueError on an empty result) and hashing
PrepareArticle(v) ==
    IF ~RawArticleValid(v)
    THEN [status |-> "invalid", text |-> <<>>, content_hash |-> <<>>]
    ELSE LET cleaned_text == clean_article_text(v.content) IN
         IF cleaned_text = <<>>
         THEN [status |-> "short", text |-> <<>>, content_hash |-> <<>>]
         ELSE [status |-> "ok", text |-> cleaned_text,
               content_hash |-> create_article_hash(v.title, cleaned_text)]

\* PrepareArticle on the raw articles of the model, computed once
KnownArticles ==
    RawMessages \o PipelineMessages \o EnricherMessages \o VersionMessages
        \o CollideMessages

Prepared == [i \in DOMAIN KnownArticles |-> PrepareArticle(KnownArticles[i])]

PreparedOf(v) ==
    IF \E i \in DOMAIN KnownArticles : KnownArticles[i] = v
    THEN Prepared[CHOOSE i \in DOMAIN KnownArticles : KnownArticles[i] = v]
    ELSE PrepareArticle(v)

\* history: the article was not published.  stale: the hash was last accepted
\* more than the dedup window ago; own: no other article put the hash there
\* and this one has not been published
NoteDrop(id, w, reason, h) ==
    dropLog' = dropLog \cup
        {[id |-> id, reason |-> reason,
          stale |-> /\ reason = "duplicate"
                    /\ now - LastAccept(h) > dedup_window_hours,
          own |-> /\ reason = "duplicate"
                  /\ \A a \in acceptLog : a.hash = h => a.id = id
                  /\ \A k \in DOMAIN cleanedTopic :
                        cleanedTopic[k].value.id # id]}

\* value_deserializer: json.loads accepts the bytes of the message
Deserializable(message) == "undecodable" \notin DOMAIN message.value

\* for message in consumer: the deserializer raises inside the consumer's
\* iterator, outside the try of the loop's body: the loop ends, the finally
\* clause closes the consumer and the producer, the exception leaves run
DeserializeRaises(w, i) ==
    /\ pc[w] = "poll"
    /\ i \in rawPending
    /\ ~Deserializable(rawTopic[i])
    /\ pc' = [pc EXCEPT ![w] = "ended"]
    /\ UNCHANGED <<rawTopic, rawPending, msg, cleaned, pending_hash,
                   seen_hashes, seen_other, redis, redisUp, now, ticks,
                   faults, cleanedTopic, acceptLog, dropLog>>
    /\ UNCHANGED <<pipelineVars, ingestorVars, enricherVars, consumerVars,
                   apiVars, textVars>>

\* for message in consumer: process_article(message.value) ...
Consume(w, i) ==
    /\ pc[w] = "poll"
    /\ i \in rawPending
    /\ Deserializable(rawTopic[i])
    /\ rawPending' = rawPending \ {i}
    /\ LET v == rawTopic[i].value
           p == PreparedOf(v)
       IN  IF p.status # "ok"
           THEN /\ NoteDrop(v.id, w, p.status, <<>>)
                /\ UNCHANGED <<pc, msg, cleaned, pending_hash>>
           ELSE IF p.content_hash \in seen_hashes[w]
           THEN /\ NoteDrop(v.id, w, "duplicate", p.content_hash)
                /\ UNCHANGED <<pc, msg, cleaned, pending_hash>>
           ELSE /\ pc' = [pc EXCEPT ![w] = "redis_exists"]
                /\ msg' = [msg EXCEPT ![w] = i]
                /\ cleaned' = [cleaned EXCEPT ![w] = p.text]
                /\ pending_hash' = [pending_hash EXCEPT ![w] = p.content_hash]
                /\ UNCHANGED dropLog
    /\ UNCHANGED <<rawTopic, seen_hashes, seen_other, redis, redisUp, now,
                   ticks, faults, cleanedTopic, acceptLog>>
    /\ UNCHANGED <<pipelineVars, ingestorVars, enricherVars,
                   consumerVars, apiVars, textVars>>

\* the worker is done with the message in hand
Release(w) ==
    /\ pc' = [pc EXCEPT ![w] = "poll"]
    /\ msg' = [msg EXCEPT ![w] = 0]
    /\ cleaned' = [cleaned EXCEPT ![w] = <<>>]
    /\ pending_hash' = [pending_hash EXCEPT ![w] = <<>>]

\* is_duplicate returned False: the article goes on to be published
ToSend(w) ==
    /\ pc' = [pc EXCEPT ![w] = "send"]
    /\ UNCHANGED <<msg, cleaned, pending_hash>>

\* except Exception in is_duplicate
Fallback(w) ==
    LET h == pending_hash[w] IN
    IF FallbackIsDuplicate(w, h)
    THEN /\ NoteDrop(rawTopic[msg[w]].value.id, w, "duplicate", h)
         /\ Release(w)
         /\ UNCHANGED <<seen_hashes, acceptLog>>
    ELSE /\ seen_hashes' = [seen_hashes EXCEPT ![w] = @ \cup {h}]
         /\ Accept(w, h, FALSE)
         /\ ToSend(w)
         /\ UNCHANGED dropLog

\* exists = self.redis_client.exists(redis_key)
RedisExists(w) ==
    /\ pc[w] = "redis_exists"
    /\ IF redisUp
       THEN IF RedisExistsKey(RedisKey(pending_hash[w]))
            THEN /\ NoteDrop(rawTopic[msg[w]].value.id, w, "duplicate", pending_hash[w])
                 /\ Release(w)
                 /\ UNCHANGED <<seen_hashes, acceptLog>>
            ELSE /\ pc' = [pc EXCEPT ![w] = "redis_setex"]
                 /\ UNCHANGED <<msg, cleaned, pending_hash, seen_hashes,
                                acceptLog, dropLog>>
       ELSE Fallback(w)
    /\ UNCHANGED <<rawTopic, rawPending, seen_other, redis, redisUp, now,
                   ticks, faults, cleanedTopic>>
    /\ UNCHANGED <<pipelineVars, ingestorVars, enricherVars,
                   consumerVars, apiVars, textVars>>

\* self.redis_client.setex(...); self.seen_hashes.add(content_hash)
RedisSetex(w) ==
    /\ pc[w] = "redis_setex"
    /\ IF redisUp
       THEN /\ redis' = RedisSetexKey(RedisKey(pending_hash[w]),
                                      dedup_window_hours)
            /\ seen_hashes' = [seen_hashes EXCEPT ![w] = @ \cup {pending_hash[w]}]
            /\ Accept(w, pending_hash[w], TRUE)
            /\ ToSend(w)
            /\ UNCHANGED dropLog
       ELSE /\ Fallback(w)
            /\ UNCHANGED redis
    /\ UNCHANGED <<rawTopic, rawPending, seen_other, redisUp, now,
                   ticks, faults, cleanedTopic>>
    /\ UNCHANGED <<pipelineVars, ingestorVars, enricherVars,
                   consumerVars, apiVars, textVars>>

\* self.kafka_client.send_message(topic, cleaned_article.dict(), key=id);
\* a KafkaError is logged by the except of the loop, which goes on
Send(w, ok) ==
    /\ pc[w] = "send"
    /\ LET article == CleanedArticle(rawTopic[msg[w]].value, cleaned[w],
                                     pending_hash[w], FALSE)
       IN  /\ cleanedTopic' =
                  Published(cleanedTopic, Message(article.id, article), ok)
    /\ skipLog' = IF ok THEN skipLog ELSE skipLog \cup {<<"parser", msg[w]>>}
    /\ Release(w)
    /\ UNCHANGED <<rawTopic, rawPending, seen_hashes, seen_other, redis,
                   redisUp, now, ticks, faults, acceptLog,
                   dropLog>>
    /\ UNCHANGED <<pipelineVars, ingestorVars, enricherVars, committed,
                   bulkLog, ensureLog, apiVars, textVars>>

(***************************************************************************)
(* The environment of the parser workers.                                  *)
(***************************************************************************)
\* time passes, TickHours hours at a time
Tick ==
    /\ ticks < MaxTicks
    /\ ticks' = ticks + 1
    /\ now' = now + TickHours
    /\ UNCHANGED <<rawTopic, rawPending, pc, msg, cleaned, pending_hash,
                   seen_hashes, seen_other, redis, redisUp, faults, cleanedTopic, acceptLog, dropLog>>
    /\ UNCHANGED <<pipelineVars, ingestorVars, enricherVars,
                   consumerVars, apiVars, textVars>>

RedisFlip ==
    /\ redisUp' = ~redisUp
    /\ UNCHANGED <<rawTopic, rawPending, pc, msg, cleaned, pending_hash,
                   seen_hashes, seen_other, redis, now, ticks, faults, cleanedTopic, acceptLog, dropLog>>
    /\ UNCHANGED <<pipelineVars, ingestorVars, enricherVars,
                   consumerVars, apiVars, textVars>>

\* at-least-once delivery: a consumed message is delivered again
Redeliver(i) ==
    /\ faults < MaxFaults
    /\ i \in DOMAIN rawTopic /\ i \notin rawPending
    /\ faults' = faults + 1
    /\ rawPending' = rawPending \cup {i}
    /\ UNCHANGED <<rawTopic, pc, msg, cleaned, pending_hash, seen_hashes,
                   seen_other, redis, redisUp, now, ticks, cleanedTopic,
                   acceptLog, dropLog>>
    /\ UNCHANGED <<pipelineVars, ingestorVars, enricherVars,
                   consumerVars, apiVars, textVars>>

\* the worker process dies and is started again: its memory is lost, the
\* message in hand was not committed and is delivered again
Crash(w) ==
    /\ faults < MaxFaults
    /\ faults' = faults + 1
    /\ rawPending' = IF msg[w] = 0 THEN rawPending ELSE rawPending \cup {msg[w]}
    /\ Release(w)
    /\ seen_hashes' = [seen_hashes EXCEPT ![w] = {}]
    /\ seen_other' = [seen_other EXCEPT ![w] = 0]
    /\ UNCHANGED <<rawTopic, redis, redisUp, now, ticks, cleanedTopic,
                   acceptLog, dropLog>>
    /\ UNCHANGED <<pipelineVars, ingestorVars, enricherVars,
                   consumerVars, apiVars, textVars>>

ParserNext ==
    \/ \E w \in Workers : \E i \in DOMAIN rawTopic : Consume(w, i)
    \/ \E w \in Workers : RedisExists(w)
    \/ \E w \in Workers : RedisSetex(w)
    \/ \E w \in Workers : \E ok \in BOOLEAN : Send(w, ok)
    \/ Tick
    \/ RedisFlip
    \/ \E i \in DOMAIN rawTopic : Redeliver(i)
    \/ \E w \in Workers : Crash(w)

\* the parser workers on a topic that holds a message json.loads rejects
PoisonNext ==
    \/ ParserNext
    \/ \E w \in Workers : \E i \in DOMAIN rawTopic : DeserializeRaises(w, i)

(***************************************************************************)
(* Normalizer.                                                             *)
(***************************************************************************)
Languages == {"en", "fr"}
target_language == "en"

\* what the translation service gives back for a text
Translated(text) == <<"[en]">> \o text

\* self.translator is set iff translation stayed enabled in __init__
translator == enable_translation

\* Normalizer.translate_text; answered: the service detects another language
\* than the target and returns a translation (else None: same language, or
\* the call raised)
translate_text(text, answered) ==
    IF ~enable_translation \/ ~translator THEN NoText
    ELSE IF answered THEN Translated(text)
    ELSE NoText

\* mutant: the characters are counted
count_words_chars(text) == Len(text)

\* Normalizer.count_words
count_words(text) == Len(SplitWords(text))

\* Normalizer.normalize_article; language is what detect_article_language
\* returned
normalize_article(cleaned_article, language, title_answered, text_answered) ==
    LET translate == enable_translation /\ language # target_language
        text_to_translate == IF Len(cleaned_article.text) > 2000
                             THEN Prefix(cleaned_article.text, 2000)
                             ELSE cleaned_article.text
    IN  [id |-> cleaned_article.id, url |-> cleaned_article.url,
         title |-> cleaned_article.title, text |-> cleaned_article.text,
         author |-> cleaned_article.author, source |-> cleaned_article.source,
         published_at |-> cleaned_article.published_at,
         scraped_at |-> cleaned_article.scraped_at,
         content_hash |-> cleaned_article.content_hash,
         language |-> language,
         translated_title |-> IF translate
                              THEN translate_text(cleaned_article.title, title_answered)
                              ELSE NoText,
         translated_text |-> IF translate
                             THEN translate_text(text_to_translate, text_answered)
                             ELSE NoText,
         word_count |-> count_words(cleaned_article.text),
         metadata |->
            ("normalization" :>
                [detected_language |-> language,
                 translation_enabled |-> enable_translation,
                 target_language |-> IF enable_translation
                                     THEN target_language ELSE None])
            @@ cleaned_article.metadata]

\* Normalizer.process_messages, one message
NormalizerConsume(language, title_answered, text_answered, ok) ==
    /\ cleanedOffset < Len(cleanedTopic)
    /\ cleanedOffset' = AfterMessage(cleanedOffset, ok)
    /\ LET normalized_article ==
               normalize_article(cleanedTopic[cleanedOffset + 1].value,
                                 language, title_answered, text_answered)
       IN  normalizedTopic' =
               Published(normalizedTopic,
                         Message(normalized_article.id, normalized_article), ok)
    /\ skipLog' = IF ok THEN skipLog
                  ELSE skipLog \cup {<<"normalizer", cleanedOffset + 1>>}
    /\ UNCHANGED <<parserVars, enable_translation, llm, normalizedOffset,
                   enrichedTopic, enrichedOffset, batch, esDocs, esIndices,
                   month, indexerPc, ingestorVars, enricherVars, committed,
                   bulkLog, ensureLog, apiVars, textVars>>

(***************************************************************************)
(* LLMEnricher.                                                            *)
(***************************************************************************)
Calls == {"summary", "topics", "entities", "sentiment", "embeddings"}

\* the characters of a word
Chars(word) ==
    CASE word = "positive" -> <<"p", "o", "s", "i", "t", "i", "v", "e">>
      [] word = "negative" -> <<"n", "e", "g", "a", "t", "i", "v", "e">>
      [] word = "neutral" -> <<"n", "e", "u", "t", "r", "a", "l">>
      [] word = "Positive" -> <<"P", "o", "s", "i", "t", "i", "v", "e">>
      [] word = "NEGative" -> <<"N", "E", "G", "a", "t", "i", "v", "e">>
      [] word = "mixed" -> <<"m", "i", "x", "e", "d">>
      [] word = "not " -> <<"n", "o", "t", " ">>
      [] word = " or " -> <<" ", "o", "r", " ">>

\* word in s
Contains(s, word) ==
    \E i \in 1..(Len(s) - Len(word) + 1) :
        \A k \in 1..Len(word) : s[i + k - 1] = word[k]

\* result.split(',')
RECURSIVE SplitComma(_)
SplitComma(s) ==
    LET at == {i \in 1..Len(s) : s[i] = ","}
    IN  IF at = {} THEN <<s>>
        ELSE LET k == CHOOSE i \in at : \A j \in at : i <= j
             IN  <<SubSeq(s, 1, k - 1)>> \o SplitComma(SubSeq(s, k + 1, Len(s)))

\* the parsing of a comma-separated answer: strip each piece, keep those of
\* more than one character
ParseItems(result) ==
    SelectSeq(StripAll(SplitComma(result)), LAMBDA item : item # <<>> /\ Len(item) > 1)

TopicsLimit == 5
EntitiesLimit == 10

\* mutant: the list of topics is not cut
extract_topics_uncapped(result, raised) ==
    IF raised THEN <<>> ELSE ParseItems(result)

\* LLMEnricher.extract_topics on the model's answer; raised: the call raised
extract_topics(result, raised) ==
    IF raised THEN <<>> ELSE Prefix(ParseItems(result), TopicsLimit)

\* LLMEnricher.extract_entities on the model's answer
extract_entities(result, raised) ==
    IF raised THEN <<>> ELSE Prefix(ParseItems(result), EntitiesLimit)

\* mutant: the branch for negative comes first
analyze_sentiment_negative_first(result, raised) ==
    IF raised THEN <<"neutral", 5>>
    ELSE LET sentiment_text == Lower(Strip(result))
         IN  IF Contains(sentiment_text, Chars("negative")) THEN <<"negative", 8>>
             ELSE IF Contains(sentiment_text, Chars("positive")) THEN <<"positive", 8>>
             ELSE <<"neutral", 7>>

\* LLMEnricher.analyze_sentiment on the model's answer; the score in tenths
analyze_sentiment(result, raised) ==
    IF raised THEN <<"neutral", 5>>
    ELSE LET sentiment_text == Lower(Strip(result))
         IN  IF Contains(sentiment_text, Chars("positive")) THEN <<"positive", 8>>
             ELSE IF Contains(sentiment_text, Chars("negative")) THEN <<"negative", 8>>
             ELSE <<"neutral", 7>>

\* what the model answers to the prompts of the pipeline specification
TopicsAnswer == <<"a", "i", ",", " ", "t", "e", "c", "h">>
EntitiesAnswer == <<"a", "c", "m", "e">>
SentimentAnswer == Chars("positive")

\* what the model answers to the prompts, as the pipeline specification has it
ModelSummary == <<"S", ".">>
ModelEmbeddings == <<1>>

DefaultAnswers ==
    [summary |-> ModelSummary, topics |-> TopicsAnswer,
     entities |-> EntitiesAnswer, sentiment |-> SentimentAnswer,
     embeddings |-> ModelEmbeddings]

\* ','.join(parts)
RECURSIVE JoinComma(_)
JoinComma(parts) ==
    IF parts = <<>> THEN <<>>
    ELSE IF Len(parts) = 1 THEN parts[1]
    ELSE parts[1] \o <<",">> \o JoinComma(Tail(parts))

\* pieces of a comma-separated answer: items, padded items, an item with a
\* space inside, a single character, nothing, blanks
Pieces ==
    << <<"a", "b">>, <<" ", "c", "d", " ">>, <<"e">>, <<"f", " ", "g">>,
       <<>>, <<" ", " ">> >>

\* pieces that make an item
ItemPieces == << <<"a", "b">>, <<" ", "c", "d", " ">>, <<"f", " ", "g">> >>

\* the answers to the topics and entities prompts: n pieces taken in turn
\* from Pieces or from ItemPieces, starting anywhere
ListAnswers ==
    {JoinComma([i \in 1..n |-> Pieces[((i + o) % Len(Pieces)) + 1]]) :
        n \in 0..MaxPieces, o \in 1..Len(Pieces)}
    \cup {JoinComma([i \in 1..n |-> ItemPieces[((i + o) % Len(ItemPieces)) + 1]]) :
        n \in 0..MaxPieces, o \in 1..Len(ItemPieces)}

\* the answers to the sentiment prompt
SentimentAnswers ==
    {Chars("positive"), Chars("negative"), Chars("neutral"), Chars("mixed"),
     <<>>, <<" ">> \o Chars("Positive") \o <<"\n">>, Chars("NEGative") \o <<".">>,
     Chars("not ") \o Chars("positive"),
     Chars("positive") \o Chars(" or ") \o Chars("negative"),
     Chars("negative") \o Chars(" or ") \o Chars("Positive")}

\* what the model answers to the prompts of an article: one answer to the
\* topics and the entities prompts, or an answer to the sentiment prompt
AnswerBundles ==
    {[DefaultAnswers EXCEPT !.topics = a, !.entities = a] : a \in ListAnswers}
        \cup {[DefaultAnswers EXCEPT !.sentiment = a] : a \in SentimentAnswers}

\* text.split('.')
RECURSIVE SplitDot(_)
SplitDot(s) ==
    LET at == {i \in 1..Len(s) : s[i] = "."}
    IN  IF at = {} THEN <<s>>
        ELSE LET k == CHOOSE i \in at : \A j \in at : i <= j
             IN  <<SubSeq(s, 1, k - 1)>> \o SplitDot(SubSeq(s, k + 1, Len(s)))

\* '.'.join(parts)
RECURSIVE JoinDot(_)
JoinDot(parts) ==
    IF parts = <<>> THEN <<>>
    ELSE IF Len(parts) = 1 THEN parts[1]
    ELSE parts[1] \o <<".">> \o JoinDot(Tail(parts))

\* mutant: the hard cut leaves room for the ellipsis
truncate_text_within(text, max_chars) ==
    IF Len(text) <= max_chars THEN text
    ELSE LET sentences == SplitDot(Prefix(text, max_chars))
         IN  IF Len(sentences) > 1
             THEN JoinDot(SubSeq(sentences, 1, Len(sentences) - 1)) \o <<".">>
             ELSE Prefix(text, max_chars - 3) \o <<".", ".", ".">>

\* LLMEnricher.truncate_text
truncate_text(text, max_chars) ==
    IF Len(text) <= max_chars THEN text
    ELSE LET sentences == SplitDot(Prefix(text, max_chars))
         IN  IF Len(sentences) > 1
             THEN JoinDot(SubSeq(sentences, 1, Len(sentences) - 1)) \o <<".">>
             ELSE Prefix(text, max_chars) \o <<".", ".", ".">>

\* the caps the methods pass to truncate_text
SummaryCap == 2000
TopicsCap == 2000
EntitiesCap == 2000
SentimentCap == 1500
EmbeddingsCap == 1000

MaxChars(call) ==
    CASE call = "summary" -> SummaryCap
      [] call = "topics" -> TopicsCap
      [] call = "entities" -> EntitiesCap
      [] call = "sentiment" -> SentimentCap
      [] call = "embeddings" -> EmbeddingsCap

\* '. '.join(parts)
RECURSIVE JoinDotSpace(_)
JoinDotSpace(parts) ==
    IF parts = <<>> THEN <<>>
    ELSE IF Len(parts) = 1 THEN parts[1]
    ELSE parts[1] \o <<".", " ">> \o JoinDotSpace(Tail(parts))

\* the except branch of generate_summary
SummaryFallback(title, text) ==
    LET sentences == Prefix(SplitDot(text), 2)
    IN  IF sentences # <<>> THEN JoinDotSpace(sentences) \o <<".">> ELSE title

\* mutant: the except branch of generate_summary returns the title
generate_summary_title(title, text, result, raised) ==
    IF raised THEN title ELSE Strip(result)

\* LLMEnricher.generate_summary on the model's answer
generate_summary(title, text, result, raised) ==
    IF raised THEN SummaryFallback(title, text) ELSE Strip(result)

EmbeddingDimension == 768

\* LLMEnricher.generate_embeddings on the vector the model returned
generate_embeddings(result, raised) ==
    IF raised THEN Rep(0, EmbeddingDimension) ELSE result

\* translated_text or text
OrElse(translated, original) ==
    IF translated # NoText /\ translated # <<>> THEN translated ELSE original

\* what the method around a model call returns
CallResult(call, normalized_article, answers, raised) ==
    LET text_for_analysis == OrElse(normalized_article.translated_text,
                                    normalized_article.text)
        title_for_analysis == OrElse(normalized_article.translated_title,
                                     normalized_article.title)
    IN  CASE call = "summary" ->
                generate_summary(title_for_analysis, text_for_analysis,
                                 answers.summary, raised)
          [] call = "topics" -> extract_topics(answers.topics, raised)
          [] call = "entities" -> extract_entities(answers.entities, raised)
          [] call = "sentiment" -> analyze_sentiment(answers.sentiment, raised)
          [] call = "embeddings" -> generate_embeddings(answers.embeddings, raised)

\* mutant: the ellipsis is counted in the 200 characters
SummaryLimitWithEllipsis == 200 - 3

\* normalized_article.text[:200]
SummaryLimit == 200

\* the EnrichedArticle enrich_article builds, in pass-through mode or from
\* what the five methods returned; at: datetime.utcnow()
EnrichedArticle(normalized_article, results, at) ==
    LET pass_through == ~llm
    IN  [id |-> normalized_article.id, url |-> normalized_article.url,
         title |-> normalized_article.title, text |-> normalized_article.text,
         author |-> normalized_article.author,
         source |-> normalized_article.source,
         published_at |-> normalized_article.published_at,
         scraped_at |-> normalized_article.scraped_at,
         content_hash |-> normalized_article.content_hash,
         language |-> normalized_article.language,
         translated_title |-> normalized_article.translated_title,
         translated_text |-> normalized_article.translated_text,
         word_count |-> normalized_article.word_count,
         summary |->
            IF pass_through
            THEN IF Len(normalized_article.text) > SummaryLimit
                 THEN Prefix(normalized_article.text, SummaryLimit)
                          \o <<".", ".", ".">>
                 ELSE normalized_article.text
            ELSE results["summary"],
         topics |-> IF pass_through THEN <<"general", "news">>
                    ELSE results["topics"],
         entities |-> IF pass_through THEN <<>> ELSE results["entities"],
         sentiment |-> IF pass_through THEN "neutral"
                       ELSE results["sentiment"][1],
         \* tenths
         sentiment_score |-> IF pass_through THEN 0
                             ELSE results["sentiment"][2],
         embeddings |-> IF pass_through THEN <<>> ELSE results["embeddings"],
         metadata |->
            ("enrichment" :>
                [enriched_at |-> at,
                 model |-> IF pass_through THEN "pass-through" ELSE "gemini-pro",
                 embedding_model |-> IF pass_through THEN "none"
                                     ELSE "models/embedding-001"])
            @@ normalized_article.metadata]

\* mutant: the record's scraped_at is overwritten with the current time
EnrichedNowRestamped(normalized_article, results) ==
    [EnrichedArticle(normalized_article, results, now) EXCEPT !.scraped_at = now]

\* the record as enrich_article builds it when it runs: datetime.utcnow() is
\* read for the enrichment block
EnrichedNow(normalized_article, results) ==
    EnrichedArticle(normalized_article, results, now)

\* LLMEnricher.enrich_article; failed: the model calls that raise
enrich_article(normalized_article, failed) ==
    EnrichedNow(normalized_article,
                [call \in Calls |->
                    CallResult(call, normalized_article, llmAnswer,
                               call \in failed)])

FailureSets == {{}, {"summary", "embeddings"}, Calls}

\* LLMEnricher.process_messages, one message
EnricherConsume(failed, ok) ==
    /\ normalizedOffset < Len(normalizedTopic)
    /\ normalizedOffset' = AfterMessage(normalizedOffset, ok)
    /\ LET enriched_article ==
               enrich_article(normalizedTopic[normalizedOffset + 1].value, failed)
       IN  enrichedTopic' =
               Published(enrichedTopic,
                         Message(enriched_article.id, enriched_article), ok)
    /\ skipLog' = IF ok THEN skipLog
                  ELSE skipLog \cup {<<"enricher", normalizedOffset + 1>>}
    /\ UNCHANGED <<parserVars, enable_translation, llm, cleanedOffset,
                   normalizedTopic, enrichedOffset, batch, esDocs, esIndices,
                   month, indexerPc, ingestorVars, enricherVars, committed,
                   bulkLog, ensureLog, apiVars, textVars>>

\* the order in which enrich_article awaits the five coroutines
CallOrder == <<"summary", "topics", "entities", "sentiment", "embeddings">>

\* the enricher is handed a message of the normalized topic (the bus delivers
\* at least once, to any worker of the group); in pass-through mode the
\* record is built at once
EnrichBegin(i) ==
    /\ enrPc = "idle"
    /\ enrRuns < MaxRuns
    /\ i \in DOMAIN normalizedTopic
    /\ enrMsg' = i
    /\ enrRuns' = enrRuns + 1
    /\ enrPc' = IF llm THEN "calls" ELSE "publish"
    /\ enrStarted' = {} /\ enrDone' = {} /\ enrRaised' = {}
    /\ enrResults' = <<>>
    /\ UNCHANGED <<parserVars, pipelineVars, ingestorVars,
                   consumerVars, apiVars, textVars,
                   enrichLog,
                   llmAnswer>>

\* summary = await summary_task, ...: a coroutine object starts to run when
\* it is awaited, and an await returns before the next statement runs
CallStart(call) ==
    /\ enrPc = "calls"
    /\ enrStarted = enrDone
    /\ \E k \in DOMAIN CallOrder :
          /\ CallOrder[k] = call
          /\ enrStarted = {CallOrder[j] : j \in 1..(k - 1)}
    /\ enrStarted' = enrStarted \cup {call}
    /\ UNCHANGED <<parserVars, pipelineVars, ingestorVars,
                   consumerVars, apiVars, textVars,
                   enrPc, enrMsg,
                   enrDone, enrRaised, enrResults, enrRuns, enrichLog,
                   llmAnswer>>

\* the awaited method returns: the parsed answer, or its fallback when the
\* call raised
CallEnd(call, raised) ==
    /\ enrPc = "calls"
    /\ call \in enrStarted \ enrDone
    /\ enrDone' = enrDone \cup {call}
    /\ enrRaised' = IF raised THEN enrRaised \cup {call} ELSE enrRaised
    /\ enrResults' = (call :> CallResult(call, normalizedTopic[enrMsg].value,
                                         llmAnswer, raised)) @@ enrResults
    /\ enrPc' = IF enrDone \cup {call} = Calls THEN "publish" ELSE "calls"
    /\ UNCHANGED <<parserVars, pipelineVars, ingestorVars,
                   consumerVars, apiVars, textVars,
                   enrMsg, enrStarted,
                   enrRuns, enrichLog, llmAnswer>>

\* the EnrichedArticle is built and process_messages sends it
EnrichPublish(ok) ==
    /\ enrPc = "publish"
    /\ LET enriched_article ==
               EnrichedNow(normalizedTopic[enrMsg].value, enrResults)
       IN  /\ enrichedTopic' =
                  Published(enrichedTopic,
                            Message(enriched_article.id, enriched_article), ok)
           /\ enrichLog' = enrichLog \cup
                  {[run |-> enrRuns, src |-> enrMsg, at |-> now,
                    raised |-> enrRaised,
                    calls |-> enrStarted, ok |-> ok, out |-> enriched_article]}
    /\ enrPc' = "idle"
    /\ enrMsg' = 0
    /\ enrStarted' = {} /\ enrDone' = {} /\ enrRaised' = {}
    /\ enrResults' = <<>>
    /\ UNCHANGED <<parserVars, enable_translation, llm, cleanedOffset,
                   normalizedTopic, normalizedOffset, enrichedOffset, batch,
                   esDocs, esIndices, month, indexerPc, ingestorVars,
                   consumerVars, apiVars, textVars,
                   enrRuns,
                   llmAnswer>>

\* the enricher call by call, and the clock
EnricherStepNext ==
    \/ \E i \in DOMAIN normalizedTopic : EnrichBegin(i)
    \/ \E call \in Calls : CallStart(call)
    \/ \E call \in Calls : \E raised \in BOOLEAN : CallEnd(call, raised)
    \/ \E ok \in BOOLEAN : EnrichPublish(ok)
    \/ Tick

(***************************************************************************)
(* ESIndexer.                                                              *)
(***************************************************************************)
index_pattern == "news"
batch_size == BatchSize

\* ESIndexer.get_index_name: the pattern and the UTC month
get_index_name == <<index_pattern, month>>

\* ESIndexer.prepare_document
prepare_document(enriched_article) ==
    [id |-> enriched_article.id, url |-> enriched_article.url,
     title |-> enriched_article.title, text |-> enriched_article.text,
     summary |-> enriched_article.summary, author |-> enriched_article.author,
     source |-> enriched_article.source, language |-> enriched_article.language,
     published_at |-> enriched_article.published_at,
     scraped_at |-> enriched_article.scraped_at,
     content_hash |-> enriched_article.content_hash,
     word_count |-> enriched_article.word_count,
     topics |-> enriched_article.topics, entities |-> enriched_article.entities,
     sentiment |-> enriched_article.sentiment,
     sentiment_score |-> enriched_article.sentiment_score,
     embeddings |-> enriched_article.embeddings,
     translated_title |-> enriched_article.translated_title,
     translated_text |-> enriched_article.translated_text,
     metadata |-> enriched_article.metadata]

\* mutant: the document id is left to the store's choice of the content hash
BulkActionHashId(enriched_article) ==
    [index |-> get_index_name, id |-> enriched_article.content_hash,
     source |-> prepare_document(enriched_article)]

\* the action add_to_batch appends
BulkAction(enriched_article) ==
    [index |-> get_index_name, id |-> enriched_article.id,
     source |-> prepare_document(enriched_article)]

\* the store after the first n actions of a bulk request were applied: a
\* document is written under its index and id, over the one that was there
RECURSIVE BulkWrite(_, _, _)
BulkWrite(docs, actions, n) ==
    IF n = 0 THEN docs
    ELSE LET a == actions[1]
         IN  BulkWrite({d \in docs : ~(d.index = a.index /\ d.id = a.id)}
                           \cup {a},
                       Tail(actions), n - 1)

\* how a bulk request can end: all of its actions applied, or (the request
\* raised) only some leading ones
BulkOutcomes(b) ==
    {[ok |-> TRUE, applied |-> Len(b)]}
        \cup {[ok |-> FALSE, applied |-> n] : n \in 0..(Len(b) - 1)}

\* ESIndexer.ensure_index_exists; a failure is logged
EnsureIndex(indices, name, ensure_ok) ==
    IF ensure_ok THEN indices \cup {name} ELSE indices

\* mutant: a batch whose bulk write raised is kept for the next attempt
AfterBulkKeepFailed(b, bulk) == IF bulk.ok THEN <<>> ELSE b

\* self.batch after the bulk write: emptied when it returned and when it
\* raised
AfterBulk(b, bulk) == <<>>

\* ESIndexer.process_batch on the batch b: the bulk write, and the batch is
\* emptied whether or not the write raised; nothing is requested for an empty
\* batch.  last: the offset of the last message of b; at: the caller
ProcessBatch(b, indices, bulk, last, at) ==
    /\ batch' = IF b = <<>> THEN <<>> ELSE AfterBulk(b, bulk)
    /\ IF b = <<>> THEN /\ esDocs' = esDocs
                        /\ esIndices' = indices
                        /\ bulkLog' = bulkLog
       ELSE /\ esDocs' = BulkWrite(esDocs, b, bulk.applied)
            /\ esIndices' = indices \cup {b[i].index : i \in 1..bulk.applied}
            /\ bulkLog' = Append(bulkLog,
                                 [first |-> last - Len(b) + 1, last |-> last,
                                  ok |-> bulk.ok, at |-> at, month |-> month,
                                  targets |-> {b[i].index : i \in DOMAIN b}])

\* mutant: the flush waits for one action more than the batch size
BatchFullOffByOne(b) == Len(b) > batch_size

\* add_to_batch: the batch has reached the batch size
BatchFull(b) == Len(b) >= batch_size

\* ESIndexer.process_messages, one message: ensure_index_exists, add_to_batch
IndexerConsume(ensure_ok, bulk) ==
    /\ indexerPc = "run"
    /\ enrichedOffset < Len(enrichedTopic)
    /\ enrichedOffset' = enrichedOffset + 1
    /\ ensureLog' = ensureLog \cup {get_index_name}
    /\ LET enriched_article == enrichedTopic[enrichedOffset + 1].value
           indices == EnsureIndex(esIndices, get_index_name, ensure_ok)
           b == Append(batch, BulkAction(enriched_article))
       IN  IF BatchFull(b)
           THEN /\ bulk \in BulkOutcomes(b)
                /\ ProcessBatch(b, indices, bulk, enrichedOffset + 1,
                                "add_to_batch")
           ELSE /\ bulk = [ok |-> TRUE, applied |-> 0]
                /\ batch' = b
                /\ esIndices' = indices
                /\ UNCHANGED <<esDocs, bulkLog>>
    /\ UNCHANGED <<parserVars, enable_translation, llm, cleanedOffset,
                   normalizedTopic, normalizedOffset, enrichedTopic, month,
                   indexerPc, ingestorVars, enricherVars, committed, skipLog,
                   apiVars, textVars>>

\* mutant: the loop's exit closes the consumer without a flush
IndexerShutdownNoFlush(bulk) ==
    /\ indexerPc = "run"
    /\ indexerPc' = "stopped"
    /\ bulk = [ok |-> TRUE, applied |-> 0]
    /\ committed' = enrichedOffset
    /\ UNCHANGED <<parserVars, enable_translation, llm, cleanedOffset,
                   normalizedTopic, normalizedOffset, enrichedTopic,
                   enrichedOffset, batch, esDocs, esIndices, bulkLog, month,
                   ingestorVars, enricherVars, skipLog, ensureLog, apiVars, textVars>>

\* KeyboardInterrupt in the loop: process_batch, then (finally) process_batch
\* again on the emptied batch, and the consumer (which commits its position)
\* and the producer are closed
IndexerShutdown(bulk) ==
    /\ indexerPc = "run"
    /\ indexerPc' = "stopped"
    /\ IF batch = <<>> THEN bulk = [ok |-> TRUE, applied |-> 0]
       ELSE bulk \in BulkOutcomes(batch)
    /\ ProcessBatch(batch, esIndices, bulk, enrichedOffset, "interrupt")
    /\ committed' = enrichedOffset
    /\ UNCHANGED <<parserVars, enable_translation, llm, cleanedOffset,
                   normalizedTopic, normalizedOffset, enrichedTopic,
                   enrichedOffset, month, ingestorVars, enricherVars,
                   skipLog, ensureLog, apiVars, textVars>>

\* the consumer's iterator raises (no KeyboardInterrupt): the finally clause
\* alone runs, process_batch and the two closes, and the exception leaves
\* process_messages
IndexerLoopRaises(bulk) ==
    /\ indexerPc = "run"
    /\ indexerPc' = "stopped"
    /\ IF batch = <<>> THEN bulk = [ok |-> TRUE, applied |-> 0]
       ELSE bulk \in BulkOutcomes(batch)
    /\ ProcessBatch(batch, esIndices, bulk, enrichedOffset, "finally")
    /\ committed' = enrichedOffset
    /\ UNCHANGED <<parserVars, enable_translation, llm, cleanedOffset,
                   normalizedTopic, normalizedOffset, enrichedTopic,
                   enrichedOffset, month, ingestorVars, enricherVars,
                   skipLog, ensureLog, apiVars, textVars>>

\* enable_auto_commit=True, auto_commit_interval_ms=1000: when the interval
\* has passed, the poll behind the loop's next iteration commits the
\* consumer's position, the offset of the last message handed to the loop
AutoCommit ==
    /\ indexerPc = "run"
    /\ committed < enrichedOffset
    /\ committed' = enrichedOffset
    /\ UNCHANGED <<parserVars, pipelineVars, ingestorVars, enricherVars,
                   bulkLog, skipLog, ensureLog, apiVars, textVars>>

\* the indexer's process dies and is started again: self.batch is gone and the
\* group's consumer resumes at the committed offset
IndexerCrash ==
    /\ indexerPc = "run"
    /\ faults < MaxFaults
    /\ faults' = faults + 1
    /\ batch' = <<>>
    /\ enrichedOffset' = committed
    /\ UNCHANGED <<rawTopic, rawPending, pc, msg, cleaned, pending_hash,
                   seen_hashes, seen_other, redis, redisUp, now, ticks,
                   cleanedTopic, acceptLog, dropLog, enable_translation, llm,
                   cleanedOffset, normalizedTopic, normalizedOffset,
                   enrichedTopic, esDocs, esIndices, month, indexerPc,
                   ingestorVars, enricherVars, consumerVars, apiVars, textVars>>

\* the UTC month of the indexer's host changes
MonthRoll ==
    /\ month < 1 + MaxMonthRolls
    /\ month' = month + 1
    /\ UNCHANGED <<parserVars, enable_translation, llm, cleanedOffset,
                   normalizedTopic, normalizedOffset, enrichedTopic,
                   enrichedOffset, batch, esDocs, esIndices, indexerPc,
                   ingestorVars, enricherVars,
                   consumerVars, apiVars, textVars>>

AllBulkOutcomes ==
    {[ok |-> TRUE, applied |-> n] : n \in 0..batch_size}
        \cup {[ok |-> FALSE, applied |-> n] : n \in 0..(batch_size - 1)}

(***************************************************************************)
(* NewsIngestor.                                                           *)
(***************************************************************************)
Feeds == 1..NumFeeds
FeedUrl(f) == [scheme |-> "https", netloc |-> <<"feed", f>>, path |-> "/rss"]

\* helpers.extract_domain
extract_domain(url) == url.netloc

\* self.interval
interval == INGEST_INTERVAL_MINUTES * 60

\* str(uuid.uuid4()): the n-th fresh identifier
Uuid(n) == "uuid-" \o ToString(n)

\* an entry of a parsed feed: with a full content field and a date, with a
\* summary only and no date, or without a link (building the article raises)
EntryKinds == {"content", "summary", "bad"}

SeqsUpTo(S, n) == UNION {[1..k -> S] : k \in 0..n}

\* what the GET of a feed can give: an exception or a timeout, a status other
\* than 200, or a feed with some entries
FeedAnswers ==
    {[kind |-> "error", entries |-> <<>>], [kind |-> "status", entries |-> <<>>]}
        \cup {[kind |-> "ok", entries |-> es] : es \in SeqsUpTo(EntryKinds, MaxEntries)}

\* the answers of the specification of the main loop: the GET fails, or the
\* feed has one entry
LoopFeedAnswers ==
    {[kind |-> "error", entries |-> <<>>], [kind |-> "ok", entries |-> <<"content">>]}

EntryArticle(f, k, kind, id, at) ==
    [id |-> id, url |-> <<"link", f, k>>, title |-> TitleB,
     content |-> IF kind = "content" THEN <<"<p>", "c", "</p>">> ELSE <<"s">>,
     author |-> None, source |-> extract_domain(FeedUrl(f)),
     published_at |-> IF kind = "content" THEN 1 ELSE at,
     scraped_at |-> at,
     metadata |-> [feed_url |-> FeedUrl(f), tags |-> <<>>, category |-> None]]

\* NewsIngestor.fetch_feed: the articles of the entries that could be
\* processed, in the order of the feed; none when the GET failed
FeedArticles(f, answer, first_id, at) ==
    LET es == answer.entries
        tagged == [k \in 1..Len(es) |-> <<k, es[k]>>]
        good == SelectSeq(tagged, LAMBDA e : e[2] # "bad")
    IN  IF answer.kind # "ok" THEN <<>>
        ELSE [n \in 1..Len(good) |->
                 EntryArticle(f, good[n][1], good[n][2],
                              Uuid(first_id + n - 1), at)]

\* while True: try: await self.run_ingestion_cycle() ...
StartCycle(max_cycles) ==
    /\ ingPc = "start"
    /\ cycles < max_cycles
    /\ cycles' = cycles + 1
    /\ ingPc' = "fetch"
    /\ cycleStart' = ingNow
    /\ prevStart' = IF cycles = 0 THEN -1 ELSE cycleStart
    /\ feed_results' = <<>>
    /\ api_articles' = <<>>
    /\ all_articles' = <<>>
    /\ pubIdx' = 1
    /\ getLog' = [f \in Feeds |-> 0]
    /\ feedLog' = <<>>
    /\ publishLog' = <<>>
    /\ UNCHANGED <<nextId, newsapi_key, ingNow, prevEnd, prevRaised,
                   producerClosed, parserVars, pipelineVars,
                   enricherVars,
                   consumerVars, apiVars, textVars>>

\* one of the fetch_feed tasks of asyncio.gather runs to its end
FetchFeed(f, answer) ==
    /\ ingPc = "fetch"
    /\ f \notin DOMAIN feed_results
    /\ LET articles == FeedArticles(f, answer, nextId, ingNow)
       IN  /\ feed_results' = (f :> articles) @@ feed_results
           /\ nextId' = nextId + Len(articles)
    /\ getLog' = [getLog EXCEPT ![f] = @ + 1]
    /\ feedLog' = (f :> answer) @@ feedLog
    /\ UNCHANGED <<ingPc, api_articles, all_articles, pubIdx, newsapi_key,
                   ingNow, cycleStart, prevStart, prevEnd, prevRaised, cycles,
                   producerClosed, publishLog, parserVars, pipelineVars,
                   enricherVars,
                   consumerVars, apiVars, textVars>>

RECURSIVE ConcatFeeds(_, _)
ConcatFeeds(results, f) ==
    IF f > NumFeeds THEN <<>> ELSE results[f] \o ConcatFeeds(results, f + 1)

\* gather has all the results: all_articles.extend(result) in the order of
\* self.feeds, then fetch_api_sources (one page, when the key is set)
Gather(api_ok) ==
    /\ ingPc = "fetch"
    /\ DOMAIN feed_results = Feeds
    /\ LET api == IF newsapi_key /\ api_ok
                  THEN <<[id |-> Uuid(nextId), url |-> <<"api", nextId>>,
                          title |-> TitleB, content |-> <<"d">>,
                          author |-> None, source |-> "NewsAPI source",
                          published_at |-> ingNow, scraped_at |-> ingNow,
                          metadata |-> [source_id |-> None,
                                        url_to_image |-> None,
                                        api_source |-> "newsapi"]]>>
                  ELSE <<>>
       IN  /\ api_articles' = api
           /\ nextId' = nextId + Len(api)
           /\ all_articles' = ConcatFeeds(feed_results, 1) \o api
    /\ (~newsapi_key => api_ok)
    /\ ingPc' = "publish"
    /\ UNCHANGED <<feed_results, pubIdx, newsapi_key, ingNow, cycleStart,
                   prevStart, prevEnd, prevRaised, cycles, producerClosed,
                   getLog, feedLog, publishLog, parserVars, pipelineVars,
                   enricherVars,
                   consumerVars, apiVars, textVars>>

\* mutant: the first failed send ends the loop over the articles
AfterPublishAbort(idx, ok) ==
    IF ok THEN idx + 1 ELSE Len(all_articles) + 1

\* publish_articles: the for loop goes on to the next article, also after
\* the except branch
AfterPublish(idx, ok) == idx + 1

\* publish_articles, one article: send_message keyed by the id; an exception
\* is logged and the loop goes on
PublishArticle(ok) ==
    /\ ingPc = "publish"
    /\ pubIdx <= Len(all_articles)
    /\ LET article == all_articles[pubIdx]
       IN  /\ rawTopic' = IF ok THEN Append(rawTopic, Message(article.id, article))
                          ELSE rawTopic
           /\ publishLog' = Append(publishLog,
                                   [key |-> article.id, id |-> article.id,
                                    ok |-> ok])
    /\ pubIdx' = AfterPublish(pubIdx, ok)
    /\ UNCHANGED <<rawPending, pc, msg, cleaned, pending_hash, seen_hashes,
                   seen_other, redis, redisUp, now, ticks, faults,
                   cleanedTopic, acceptLog, dropLog, pipelineVars,
                   enricherVars,
                   consumerVars, apiVars, textVars>>
    /\ UNCHANGED <<ingPc, feed_results, api_articles, all_articles, nextId,
                   newsapi_key, ingNow, cycleStart, prevStart, prevEnd,
                   prevRaised, cycles, producerClosed, getLog, feedLog>>

\* how long a cycle can take: no time, some time, longer than the interval
CycleDurations == {0, MaxCycleDuration, interval + MaxCycleDuration}

\* run_ingestion_cycle returns after d seconds; await asyncio.sleep(interval)
EndCycle(d) ==
    /\ ingPc = "publish"
    /\ pubIdx > Len(all_articles)
    /\ ingPc' = "sleep"
    /\ ingNow' = ingNow + d
    /\ prevEnd' = ingNow + d
    /\ prevRaised' = FALSE
    /\ UNCHANGED <<feed_results, api_articles, all_articles, pubIdx, nextId,
                   newsapi_key, cycleStart, prevStart, cycles, producerClosed,
                   getLog, feedLog, publishLog, parserVars, pipelineVars,
                   enricherVars,
                   consumerVars, apiVars, textVars>>

\* the argument of asyncio.sleep after a cycle
SleepTime == interval

\* the sleep is over: the loop goes round
Sleep ==
    /\ ingPc = "sleep"
    /\ ingPc' = "start"
    /\ ingNow' = ingNow + SleepTime
    /\ UNCHANGED <<feed_results, api_articles, all_articles, pubIdx, nextId,
                   newsapi_key, cycleStart, prevStart, prevEnd, prevRaised,
                   cycles, producerClosed, getLog, feedLog, publishLog,
                   parserVars, pipelineVars,
                   enricherVars,
                   consumerVars, apiVars, textVars>>

\* run_ingestion_cycle raises after d seconds: except Exception, and
\* await asyncio.sleep(60)
CycleRaises(d) ==
    /\ ingPc \in {"fetch", "publish"}
    /\ ingPc' = "retry_wait"
    /\ ingNow' = ingNow + d
    /\ prevEnd' = ingNow + d
    /\ prevRaised' = TRUE
    /\ UNCHANGED <<feed_results, api_articles, all_articles, pubIdx, nextId,
                   newsapi_key, cycleStart, prevStart, cycles, producerClosed,
                   getLog, feedLog, publishLog, parserVars, pipelineVars,
                   enricherVars,
                   consumerVars, apiVars, textVars>>

\* the 60 seconds are over: the loop goes round
RetryWaitOver ==
    /\ ingPc = "retry_wait"
    /\ ingPc' = "start"
    /\ ingNow' = ingNow + RetryWait
    /\ UNCHANGED <<feed_results, api_articles, all_articles, pubIdx, nextId,
                   newsapi_key, cycleStart, prevStart, prevEnd, prevRaised,
                   cycles, producerClosed, getLog, feedLog, publishLog,
                   parserVars, pipelineVars,
                   enricherVars,
                   consumerVars, apiVars, textVars>>

\* KeyboardInterrupt inside the try (in the cycle or in the sleep after it):
\* except KeyboardInterrupt: break, then self.kafka_client.close()
InterruptInTry ==
    /\ ingPc \in {"start", "fetch", "publish", "sleep"}
    /\ ingPc' = "stopped"
    /\ producerClosed' = TRUE
    /\ UNCHANGED <<feed_results, api_articles, all_articles, pubIdx, nextId,
                   newsapi_key, ingNow, cycleStart, prevStart, prevEnd,
                   prevRaised, cycles, getLog, feedLog, publishLog,
                   parserVars, pipelineVars,
                   enricherVars,
                   consumerVars, apiVars, textVars>>

\* KeyboardInterrupt in the sleep of the except Exception handler: no except
\* clause is around it, the exception leaves run() before the close
InterruptInHandler ==
    /\ ingPc = "retry_wait"
    /\ ingPc' = "stopped"
    /\ UNCHANGED <<feed_results, api_articles, all_articles, pubIdx, nextId,
                   newsapi_key, ingNow, cycleStart, prevStart, prevEnd,
                   prevRaised, cycles, producerClosed, getLog, feedLog,
                   publishLog, parserVars, pipelineVars,
                   enricherVars,
                   consumerVars, apiVars, textVars>>

\* the steps of run() after the fetches
IngestorRest ==
    \/ \E api_ok \in BOOLEAN : Gather(api_ok)
    \/ \E ok \in BOOLEAN : PublishArticle(ok)
    \/ \E d \in CycleDurations : EndCycle(d)
    \/ Sleep
    \/ \E d \in CycleDurations : CycleRaises(d)
    \/ RetryWaitOver
    \/ InterruptInTry
    \/ InterruptInHandler

\* the ingestor with feeds of up to MaxEntries entries
IngestorNext ==
    \/ StartCycle(MaxCycles)
    \/ \E f \in Feeds : \E answer \in FeedAnswers : FetchFeed(f, answer)
    \/ IngestorRest

\* the main loop over MaxLoopCycles cycles
IngestorLoopNext ==
    \/ StartCycle(MaxLoopCycles)
    \/ \E f \in Feeds : \E answer \in LoopFeedAnswers : FetchFeed(f, answer)
    \/ IngestorRest

NormalizerNext ==
    \E language \in Languages : \E title_answered, text_answered, ok \in BOOLEAN :
        NormalizerConsume(language, title_answered, text_answered, ok)

EnricherNext ==
    \E failed \in FailureSets : \E ok \in BOOLEAN : EnricherConsume(failed, ok)

IndexerNext ==
    \/ \E ensure_ok \in BOOLEAN : \E bulk \in AllBulkOutcomes :
          IndexerConsume(ensure_ok, bulk)
    \/ \E bulk \in AllBulkOutcomes : IndexerShutdown(bulk)
    \/ MonthRoll

\* the indexer with every way its loop ends
IndexerLoopNext ==
    \/ IndexerNext
    \/ \E bulk \in AllBulkOutcomes : IndexerLoopRaises(bulk)

\* the indexer as long as nothing ends its loop
IndexerRunNext ==
    \/ \E ensure_ok \in BOOLEAN : \E bulk \in AllBulkOutcomes :
          IndexerConsume(ensure_ok, bulk)
    \/ MonthRoll

\* the indexer, the group's commits and a crash of the process
IndexerCrashNext ==
    \/ IndexerRunNext
    \/ AutoCommit
    \/ IndexerCrash

\* one parser worker and the two stages behind it
StagesNext ==
    \/ \E i \in DOMAIN rawTopic : Consume(1, i)
    \/ RedisExists(1)
    \/ RedisSetex(1)
    \/ \E ok \in BOOLEAN : Send(1, ok)
    \/ NormalizerNext
    \/ EnricherNext

\* one parser worker, the store and the clock left alone, and the stages
\* behind it
PipelineNext ==
    \/ \E i \in DOMAIN rawTopic : Consume(1, i)
    \/ RedisExists(1)
    \/ RedisSetex(1)
    \/ \E ok \in BOOLEAN : Send(1, ok)
    \/ NormalizerNext
    \/ EnricherNext
    \/ IndexerNext

(***************************************************************************)
(* ParserDeduper.cleanup_cache.  Nothing in the worker calls it: run calls *)
(* process_messages, whose loop never reaches it; it is no step of Next.   *)
(***************************************************************************)
CacheLen(w) == Cardinality(seen_hashes[w]) + seen_other[w]

cleanup_cache(w) ==
    /\ IF CacheLen(w) > CacheLimit
       THEN /\ seen_hashes' = [seen_hashes EXCEPT ![w] = {}]
            /\ seen_other' = [seen_other EXCEPT ![w] = 0]
       ELSE UNCHANGED <<seen_hashes, seen_other>>
    /\ UNCHANGED <<rawTopic, rawPending, pc, msg, cleaned, pending_hash, redis,
                   redisUp, now, ticks, faults, cleanedTopic, acceptLog,
                   dropLog, pipelineVars, ingestorVars, enricherVars,
                   consumerVars, apiVars, textVars>>

(***************************************************************************)
(* Query API: services/api/app/main.py and simple_api.py.                  *)
(***************************************************************************)
DefaultLimit == 20

MockTitle1 ==
    <<"A", "I", " ", "R", "e", "v", "o", "l", "u", "t", "i", "o", "n", " ",
          "i", "n", " ", "H", "e", "a", "l", "t", "h", "c", "a", "r", "e">>

MockContent1 ==
    <<"A", "r", "t", "i", "f", "i", "c", "i", "a", "l", " ", "i", "n", "t",
          "e", "l", "l", "i", "g", "e", "n", "c", "e", " ", "i", "s", " ", "t",
          "r", "a", "n", "s", "f", "o", "r", "m", "i", "n", "g", " ", "h", "e",
          "a", "l", "t", "h", "c", "a", "r", "e", " ", "w", "i", "t", "h", " ",
          "n", "e", "w", " ", "d", "i", "a", "g", "n", "o", "s", "t", "i", "c",
          " ", "t", "o", "o", "l", "s", " ", "a", "n", "d", " ", "t", "r", "e",
          "a", "t", "m", "e", "n", "t", " ", "m", "e", "t", "h", "o", "d", "s",
          ".", " ", "M", "a", "c", "h", "i", "n", "e", " ", "l", "e", "a", "r",
          "n", "i", "n", "g", " ", "a", "l", "g", "o", "r", "i", "t", "h", "m",
          "s", " ", "a", "r", "e", " ", "n", "o", "w", " ", "c", "a", "p", "a",
          "b", "l", "e", " ", "o", "f", " ", "d", "e", "t", "e", "c", "t", "i",
          "n", "g", " ", "d", "i", "s", "e", "a", "s", "e", "s", " ", "e", "a",
          "r", "l", "i", "e", "r", " ", "t", "h", "a", "n", " ", "t", "r", "a",
          "d", "i", "t", "i", "o", "n", "a", "l", " ", "m", "e", "t", "h", "o",
          "d", "s", ".">>

MockSummary1 ==
    <<"A", "I", " ", "i", "s", " ", "r", "e", "v", "o", "l", "u", "t", "i",
          "o", "n", "i", "z", "i", "n", "g", " ", "h", "e", "a", "l", "t", "h",
          "c", "a", "r", "e", " ", "t", "h", "r", "o", "u", "g", "h", " ", "a",
          "d", "v", "a", "n", "c", "e", "d", " ", "d", "i", "a", "g", "n", "o",
          "s", "t", "i", "c", " ", "t", "o", "o", "l", "s", " ", "a", "n", "d",
          " ", "e", "a", "r", "l", "y", " ", "d", "i", "s", "e", "a", "s", "e",
          " ", "d", "e", "t", "e", "c", "t", "i", "o", "n", " ", "c", "a", "p",
          "a", "b", "i", "l", "i", "t", "i", "e", "s", ".">>

MockTitle2 ==
    <<"C", "l", "i", "m", "a", "t", "e", " ", "C", "h", "a", "n", "g", "e",
          " ", "I", "m", "p", "a", "c", "t", " ", "o", "n", " ", "G", "l", "o",
          "b", "a", "l", " ", "E", "c", "o", "n", "o", "m", "y">>

MockContent2 ==
    <<"R", "e", "c", "e", "n", "t", " ", "s", "t", "u", "d", "i", "e", "s",
          " ", "s", "h", "o", "w", " ", "t", "h", "a", "t", " ", "c", "l", "i",
          "m", "a", "t", "e", " ", "c", "h", "a", "n", "g", "e", " ", "i", "s",
          " ", "h", "a", "v", "i", "n", "g", " ", "s", "i", "g", "n", "i", "f",
          "i", "c", "a", "n", "t", " ", "i", "m", "p", "a", "c", "t", "s", " ",
          "o", "n", " ", "t", "h", "e", " ", "g", "l", "o", "b", "a", "l", " ",
          "e", "c", "o", "n", "o", "m", "y", ",", " ", "a", "f", "f", "e", "c",
          "t", "i", "n", "g", " ", "a", "g", "r", "i", "c", "u", "l", "t", "u",
          "r", "e", ",", " ", "t", "o", "u", "r", "i", "s", "m", ",", " ", "a",
          "n", "d", " ", "e", "n", "e", "r", "g", "y", " ", "s", "e", "c", "t",
          "o", "r", "s", " ", "w", "o", "r", "l", "d", "w", "i", "d", "e", ".">>

MockSummary2 ==
    <<"C", "l", "i", "m", "a", "t", "e", " ", "c", "h", "a", "n", "g", "e",
          " ", "i", "s", " ", "s", "i", "g", "n", "i", "f", "i", "c", "a", "n",
          "t", "l", "y", " ", "i", "m", "p", "a", "c", "t", "i", "n", "g", " ",
          "g", "l", "o", "b", "a", "l", " ", "e", "c", "o", "n", "o", "m", "y",
          " ", "a", "c", "r", "o", "s", "s", " ", "m", "u", "l", "t", "i", "p",
          "l", "e", " ", "s", "e", "c", "t", "o", "r", "s", " ", "i", "n", "c",
          "l", "u", "d", "i", "n", "g", " ", "a", "g", "r", "i", "c", "u", "l",
          "t", "u", "r", "e", " ", "a", "n", "d", " ", "t", "o", "u", "r", "i",
          "s", "m", ".">>

MockTitle3 ==
    <<"S", "p", "a", "c", "e", " ", "E", "x", "p", "l", "o", "r", "a", "t",
          "i", "o", "n", " ", "B", "r", "e", "a", "k", "t", "h", "r", "o", "u",
          "g", "h">>

MockContent3 ==
    <<"S", "c", "i", "e", "n", "t", "i", "s", "t", "s", " ", "h", "a", "v",
          "e", " ", "m", "a", "d", "e", " ", "a", " ", "g", "r", "o", "u", "n",
          "d", "b", "r", "e", "a", "k", "i", "n", "g", " ", "d", "i", "s", "c",
          "o", "v", "e", "r", "y", " ", "a", "b", "o", "u", "t", " ", "e", "x",
          "o", "p", "l", "a", "n", "e", "t", "s", " ", "t", "h", "a", "t", " ",
          "c", "o", "u", "l", "d", " ", "c", "h", "a", "n", "g", "e", " ", "o",
          "u", "r", " ", "u", "n", "d", "e", "r", "s", "t", "a", "n", "d", "i",
          "n", "g", " ", "o", "f", " ", "l", "i", "f", "e", " ", "i", "n", " ",
          "t", "h", "e", " ", "u", "n", "i", "v", "e", "r", "s", "e", ".", " ",
          "T", "h", "e", " ", "n", "e", "w", " ", "f", "i", "n", "d", "i", "n",
          "g", "s", " ", "s", "u", "g", "g", "e", "s", "t", " ", "h", "a", "b",
          "i", "t", "a", "b", "l", "e", " ", "c", "o", "n", "d", "i", "t", "i",
          "o", "n", "s", " ", "m", "a", "y", " ", "b", "e", " ", "m", "o", "r",
          "e", " ", "c", "o", "m", "m", "o", "n", " ", "t", "h", "a", "n", " ",
          "p", "r", "e", "v", "i", "o", "u", "s", "l", "y", " ", "t", "h", "o",
          "u", "g", "h", "t", ".">>

MockSummary3 ==
    <<"N", "e", "w", " ", "e", "x", "o", "p", "l", "a", "n", "e", "t", " ",
          "r", "e", "s", "e", "a", "r", "c", "h", " ", "s", "u", "g", "g", "e",
          "s", "t", "s", " ", "h", "a", "b", "i", "t", "a", "b", "l", "e", " ",
          "c", "o", "n", "d", "i", "t", "i", "o", "n", "s", " ", "m", "a", "y",
          " ", "b", "e", " ", "m", "o", "r", "e", " ", "w", "i", "d", "e", "s",
          "p", "r", "e", "a", "d", " ", "i", "n", " ", "t", "h", "e", " ", "u",
          "n", "i", "v", "e", "r", "s", "e", ".">>

SimpleTitle1 ==
    <<"A", "I", " ", "R", "e", "v", "o", "l", "u", "t", "i", "o", "n", " ",
          "i", "n", " ", "H", "e", "a", "l", "t", "h", "c", "a", "r", "e">>

SimpleText1 ==
    <<"A", "r", "t", "i", "f", "i", "c", "i", "a", "l", " ", "i", "n", "t",
          "e", "l", "l", "i", "g", "e", "n", "c", "e", " ", "i", "s", " ", "t",
          "r", "a", "n", "s", "f", "o", "r", "m", "i", "n", "g", " ", "h", "e",
          "a", "l", "t", "h", "c", "a", "r", "e", " ", "w", "i", "t", "h", " ",
          "n", "e", "w", " ", "d", "i", "a", "g", "n", "o", "s", "t", "i", "c",
          " ", "t", "o", "o", "l", "s", " ", "a", "n", "d", " ", "t", "r", "e",
          "a", "t", "m", "e", "n", "t", " ", "m", "e", "t", "h", "o", "d", "s",
          ".", " ", "M", "a", "c", "h", "i", "n", "e", " ", "l", "e", "a", "r",
          "n", "i", "n", "g", " ", "a", "l", "g", "o", "r", "i", "t", "h", "m",
          "s", " ", "a", "r", "e", " ", "n", "o", "w", " ", "c", "a", "p", "a",
          "b", "l", "e", " ", "o", "f", " ", "d", "e", "t", "e", "c", "t", "i",
          "n", "g", " ", "d", "i", "s", "e", "a", "s", "e", "s", " ", "e", "a",
          "r", "l", "i", "e", "r", " ", "t", "h", "a", "n", " ", "t", "r", "a",
          "d", "i", "t", "i", "o", "n", "a", "l", " ", "m", "e", "t", "h", "o",
          "d", "s", ",", " ", "l", "e", "a", "d", "i", "n", "g", " ", "t", "o",
          " ", "b", "e", "t", "t", "e", "r", " ", "p", "a", "t", "i", "e", "n",
          "t", " ", "o", "u", "t", "c", "o", "m", "e", "s", " ", "a", "n", "d",
          " ", "r", "e", "d", "u", "c", "e", "d", " ", "h", "e", "a", "l", "t",
          "h", "c", "a", "r", "e", " ", "c", "o", "s", "t", "s", ".">>

SimpleTitle2 ==
    <<"C", "l", "i", "m", "a", "t", "e", " ", "C", "h", "a", "n", "g", "e",
          " ", "I", "m", "p", "a", "c", "t", " ", "o", "n", " ", "G", "l", "o",
          "b", "a", "l", " ", "E", "c", "o", "n", "o", "m", "y">>

SimpleText2 ==
    <<"N", "e", "w", " ", "s", "t", "u", "d", "y", " ", "r", "e", "v", "e",
          "a", "l", "s", " ", "s", "i", "g", "n", "i", "f", "i", "c", "a", "n",
          "t", " ", "e", "c", "o", "n", "o", "m", "i", "c", " ", "i", "m", "p",
          "l", "i", "c", "a", "t", "i", "o", "n", "s", " ", "o", "f", " ", "c",
          "l", "i", "m", "a", "t", "e", " ", "c", "h", "a", "n", "g", "e", " ",
          "a", "c", "r", "o", "s", "s", " ", "m", "u", "l", "t", "i", "p", "l",
          "e", " ", "s", "e", "c", "t", "o", "r", "s", ".", " ", "A", "g", "r",
          "i", "c", "u", "l", "t", "u", "r", "a", "l", " ", "p", "r", "o", "d",
          "u", "c", "t", "i", "v", "i", "t", "y", ",", " ", "t", "o", "u", "r",
          "i", "s", "m", " ", "r", "e", "v", "e", "n", "u", "e", ",", " ", "a",
          "n", "d", " ", "e", "n", "e", "r", "g", "y", " ", "c", "o", "s", "t",
          "s", " ", "a", "r", "e", " ", "a", "l", "l", " ", "b", "e", "i", "n",
          "g", " ", "a", "f", "f", "e", "c", "t", "e", "d", " ", "b", "y", " ",
          "c", "h", "a", "n", "g", "i", "n", "g", " ", "w", "e", "a", "t", "h",
          "e", "r", " ", "p", "a", "t", "t", "e", "r", "n", "s", " ", "a", "n",
          "d", " ", "r", "i", "s", "i", "n", "g", " ", "t", "e", "m", "p", "e",
          "r", "a", "t", "u", "r", "e", "s", " ", "w", "o", "r", "l", "d", "w",
          "i", "d", "e", ".">>

SimpleTitle3 ==
    <<"B", "r", "e", "a", "k", "t", "h", "r", "o", "u", "g", "h", " ", "i",
          "n", " ", "Q", "u", "a", "n", "t", "u", "m", " ", "C", "o", "m", "p",
          "u", "t", "i", "n", "g">>

SimpleText3 ==
    <<"S", "c", "i", "e", "n", "t", "i", "s", "t", "s", " ", "a", "c", "h",
          "i", "e", "v", "e", " ", "n", "e", "w", " ", "m", "i", "l", "e", "s",
          "t", "o", "n", "e", " ", "i", "n", " ", "q", "u", "a", "n", "t", "u",
          "m", " ", "c", "o", "m", "p", "u", "t", "e", "r", " ", "d", "e", "v",
          "e", "l", "o", "p", "m", "e", "n", "t", ",", " ", "b", "r", "i", "n",
          "g", "i", "n", "g", " ", "u", "s", " ", "c", "l", "o", "s", "e", "r",
          " ", "t", "o", " ", "p", "r", "a", "c", "t", "i", "c", "a", "l", " ",
          "q", "u", "a", "n", "t", "u", "m", " ", "c", "o", "m", "p", "u", "t",
          "i", "n", "g", " ", "a", "p", "p", "l", "i", "c", "a", "t", "i", "o",
          "n", "s", ".", " ", "T", "h", "e", " ", "b", "r", "e", "a", "k", "t",
          "h", "r", "o", "u", "g", "h", " ", "c", "o", "u", "l", "d", " ", "r",
          "e", "v", "o", "l", "u", "t", "i", "o", "n", "i", "z", "e", " ", "c",
          "r", "y", "p", "t", "o", "g", "r", "a", "p", "h", "y", ",", " ", "d",
          "r", "u", "g", " ", "d", "i", "s", "c", "o", "v", "e", "r", "y", ",",
          " ", "a", "n", "d", " ", "c", "o", "m", "p", "l", "e", "x", " ", "p",
          "r", "o", "b", "l", "e", "m", "-", "s", "o", "l", "v", "i", "n", "g",
          " ", "c", "a", "p", "a", "b", "i", "l", "i", "t", "i", "e", "s", ".">>

\* main.py MOCK_ARTICLES: the dictionaries with the keys they have;
\* published_at is the hour of 2025-09-14, scores are in tenths
MOCK_ARTICLES ==
    <<[id |-> "1", title |-> MockTitle1, content |-> MockContent1,
       summary |-> MockSummary1, url |-> "https://example.com/ai-healthcare",
       published_at |-> 1, source |-> "TechNews",
       author |-> "Dr. Sarah Johnson", language |-> "en",
       topics |-> <<"artificial intelligence", "healthcare", "technology">>,
       entities |-> <<"AI", "machine learning", "healthcare">>,
       sentiment |-> "positive", sentiment_score |-> 8,
       word_count |-> 150, category |-> "Technology",
       translated_text |-> None],
      [id |-> "2", title |-> MockTitle2, content |-> MockContent2,
       summary |-> MockSummary2, url |-> "https://example.com/climate-economy",
       published_at |-> 2, source |-> "Global News",
       author |-> "Maria Rodriguez", language |-> "en",
       topics |-> <<"climate change", "economy", "environment">>,
       entities |-> <<"climate", "economy", "agriculture", "tourism">>,
       sentiment |-> "negative", sentiment_score |-> -6,
       word_count |-> 200, category |-> "Environment",
       translated_text |-> None],
      [id |-> "3", title |-> MockTitle3, content |-> MockContent3,
       summary |-> MockSummary3, url |-> "https://example.com/space-discovery",
       published_at |-> 3, source |-> "Science Daily",
       author |-> "Prof. Michael Chen", language |-> "en",
       topics |-> <<"space", "science", "discovery">>,
       entities |-> <<"exoplanets", "space", "universe", "science">>,
       sentiment |-> "positive", sentiment_score |-> 9,
       word_count |-> 180, category |-> "Science",
       translated_text |-> None]>>

\* simple_api.py MOCK_ARTICLES: the Article objects; published_at and
\* scraped_at are datetime.now() when the list is built, one call after the
\* other
SimpleArticles(times) ==
    <<[id |-> "1", url |-> "https://example.com/ai-healthcare", title |-> SimpleTitle1,
       text |-> SimpleText1, summary |-> "AI is revolutionizing medical diagnostics and treatment.",
       author |-> "Dr. Sarah Johnson", source |-> "TechNews",
       language |-> "en", published_at |-> times[1],
       scraped_at |-> times[1], word_count |-> 150,
       topics |-> <<<<"A", "I">>,
         <<"H", "e", "a", "l", "t", "h", "c", "a", "r", "e">>,
         <<"T", "e", "c", "h", "n", "o", "l", "o", "g", "y">>>>,
       entities |-> <<"artificial intelligence", "machine learning", "healthcare">>,
       sentiment |-> "positive", sentiment_score |-> 8,
       metadata |-> [category |-> "Technology"]],
      [id |-> "2", url |-> "https://example.com/climate-economy", title |-> SimpleTitle2,
       text |-> SimpleText2, summary |-> "Climate change poses major economic challenges worldwide.",
       author |-> "Maria Rodriguez", source |-> "EcoToday",
       language |-> "en", published_at |-> times[2],
       scraped_at |-> times[2], word_count |-> 200,
       topics |-> <<<<"C", "l", "i", "m", "a", "t", "e">>,
         <<"E", "c", "o", "n", "o", "m", "y">>,
         <<"E", "n", "v", "i", "r", "o", "n", "m", "e", "n", "t">>>>,
       entities |-> <<"climate change", "economy", "agriculture", "tourism">>,
       sentiment |-> "negative", sentiment_score |-> -6,
       metadata |-> [category |-> "Environment"]],
      [id |-> "3", url |-> "https://example.com/quantum-breakthrough", title |-> SimpleTitle3,
       text |-> SimpleText3, summary |-> "Major advancement in quantum computing technology.",
       author |-> "Prof. Michael Chen", source |-> "ScienceDaily",
       language |-> "en", published_at |-> times[3],
       scraped_at |-> times[3], word_count |-> 180,
       topics |-> <<<<"Q", "u", "a", "n", "t", "u", "m">>,
         <<"C", "o", "m", "p", "u", "t", "i", "n", "g">>,
         <<"S", "c", "i", "e", "n", "c", "e">>>>,
       entities |-> <<"quantum computing", "cryptography", "drug discovery">>,
       sentiment |-> "positive", sentiment_score |-> 9,
       metadata |-> [category |-> "Science"]]>>

\* the fields of EnrichedArticle that have no default (models.py)
EnrichedRequired ==
    {"id", "url", "title", "text", "source", "published_at", "scraped_at",
     "content_hash", "language", "word_count", "summary", "sentiment",
     "sentiment_score"}

SentimentTypes == {"positive", "negative", "neutral"}

\* EnrichedArticle(**fields) raises no ValidationError
EnrichedValid(fields) ==
    /\ EnrichedRequired \subseteq DOMAIN fields
    /\ fields.sentiment \in SentimentTypes

\* s[from:from + size], for from >= 0
Slice(s, from, size) ==
    SubSeq(s, from + 1, IF from + size < Len(s) THEN from + size ELSE Len(s))

\* sorted(articles, key=published_at, reverse=True): a stable sort, articles
\* of one time keep their order
SortedLatest(articles) ==
    LET n == Len(articles)
        Before(i, j) ==
            \/ articles[i].published_at > articles[j].published_at
            \/ articles[i].published_at = articles[j].published_at /\ i < j
        order == CHOOSE f \in [1..n -> 1..n] :
                     \A a, b \in 1..n : a < b => Before(f[a], f[b])
    IN  [k \in 1..n |-> articles[order[k]]]

\* what a handler answers: the status, the articles of the body and total
Answer(status, articles, total) ==
    [status |-> status, articles |-> articles, total |-> total]

\* the elements of s at the indexes in keep, in the order of s
Pick(s, keep) ==
    LET Keeps(k) == k \in keep
        indexes == SelectSeq([k \in DOMAIN s |-> k], Keeps)
    IN  [i \in DOMAIN indexes |-> s[indexes[i]]]

\* article['title'].lower(), article['content'].lower() and
\* article['summary'].lower() of the mock articles of main.py
MockLower ==
    [k \in DOMAIN MOCK_ARTICLES |->
        [title |-> Lower(MOCK_ARTICLES[k].title),
         content |-> Lower(MOCK_ARTICLES[k].content),
         summary |-> Lower(MOCK_ARTICLES[k].summary)]]

\* the mock branch of search_articles: the articles that pass the filters
MockFiltered(query, sentiment) ==
    LET q == Lower(query)
        keep == {k \in DOMAIN MOCK_ARTICLES :
                    /\ query # <<>> =>
                          \/ Contains(MockLower[k].title, q)
                          \/ Contains(MockLower[k].content, q)
                          \/ Contains(MockLower[k].summary, q)
                    /\ sentiment # None =>
                          MOCK_ARTICLES[k].sentiment = sentiment}
    IN  Pick(MOCK_ARTICLES, keep)

\* the documents of the indices news-*
StoreHits == {d \in esDocs : d.index[1] = index_pattern}

\* build_elasticsearch_query and what the store makes of it: match_all
\* without a query, otherwise the documents with the query's word in the
\* title, the summary or the text; then the sentiment term filter
QueryHits(query, sentiment) ==
    LET q == Lower(query)
    IN  {d \in StoreHits :
            /\ query # <<>> =>
                  \/ Contains(Lower(d.source.title), q)
                  \/ Contains(Lower(d.source.summary), q)
                  \/ Contains(Lower(d.source.text), q)
            /\ sentiment # None => d.source.sentiment = sentiment}

\* es.search with sort published_at desc, from and size: the hits and
\* hits.total.value
EsSearch(hits, from, size) ==
    LET n == Cardinality(hits)
        sorted == CHOOSE f \in [1..n -> hits] :
                      \A a, b \in 1..n :
                          a < b => f[a].source.published_at
                                       > f[b].source.published_at
    IN  [hits |-> Slice(sorted, from, size), total |-> n]

\* the bodies of the hits as EnrichedArticle objects; any that fails to
\* validate raises, and the handler's except Exception answers 500
Parsed(sources, total) ==
    IF \E k \in DOMAIN sources : ~EnrichedValid(sources[k])
    THEN Answer(500, <<>>, 0)
    ELSE Answer(200, sources, total)

\* main.py search_articles
search_articles(query, sentiment, page, size) ==
    LET from_offset == (page - 1) * size
    IN  IF ~es_available
        THEN LET answer == Parsed(MockFiltered(query, sentiment), 0)
             IN  IF answer.status = 500 THEN answer
                 ELSE Answer(200, Slice(answer.articles, from_offset, size),
                             Len(answer.articles))
        ELSE LET response == EsSearch(QueryHits(query, sentiment),
                                      from_offset, size)
             IN  Parsed([k \in DOMAIN response.hits |->
                            response.hits[k].source], response.total)

\* main.py get_article: the answers it can give (the store returns any one
\* document with the id)
get_article(article_id) ==
    IF ~es_available
    THEN LET found == LET Is(article) == article.id = article_id
                      IN  SelectSeq(MOCK_ARTICLES, Is)
         IN  IF found = <<>> THEN {Answer(404, <<>>, 0)}
             ELSE {Parsed(<<found[1]>>, 1)}
    ELSE LET hits == {d \in StoreHits : d.source.id = article_id}
         IN  IF hits = {} THEN {Answer(404, <<>>, 0)}
             ELSE {Parsed(<<d.source>>, 1) : d \in hits}

\* main.py get_latest_articles, without filters
get_latest_articles(limit) ==
    IF ~es_available
    THEN Parsed(Slice(SortedLatest(MOCK_ARTICLES), 0, limit), 0)
    ELSE LET response == EsSearch(StoreHits, 0, limit)
         IN  Parsed([k \in DOMAIN response.hits |-> response.hits[k].source],
                    0)

\* main.py get_stats: total_articles
get_stats ==
    IF ~es_available THEN Answer(200, <<>>, Len(MOCK_ARTICLES))
    ELSE Answer(200, <<>>, Cardinality(StoreHits))

\* the handlers main.py registers under /articles/, in its order:
\* /articles/{article_id} comes before /articles/latest
ArticleRoutes == <<"get_article", "get_latest_articles">>

\* the route's path matches /articles/<segment>
RouteMatches(route, segment) ==
    route = "get_article" \/ segment = "latest"

\* the router hands a request to the first route that matches
RouteOf(segment) ==
    ArticleRoutes[CHOOSE k \in DOMAIN ArticleRoutes :
                      /\ RouteMatches(ArticleRoutes[k], segment)
                      /\ \A j \in 1..(k - 1) :
                            ~RouteMatches(ArticleRoutes[j], segment)]

\* article.title.lower(), article.text.lower() and topic.lower() of the mock
\* articles of simple_api.py
SimpleLower ==
    LET MOCK == SimpleArticles(<<1, 1, 1>>)
    IN  [k \in DOMAIN MOCK |->
            [title |-> Lower(MOCK[k].title), text |-> Lower(MOCK[k].text),
             topics |-> [t \in DOMAIN MOCK[k].topics |->
                            Lower(MOCK[k].topics[t])]]]

\* simple_api.py search_articles_get
search_articles_get(query, sentiment, page, size) ==
    LET query_lower == Lower(query)
        MOCK == SimpleArticles(mockTimes)
        keep == {k \in DOMAIN MOCK :
                    /\ \/ query = <<>>
                       \/ Contains(SimpleLower[k].title, query_lower)
                       \/ Contains(SimpleLower[k].text, query_lower)
                       \/ \E t \in DOMAIN SimpleLower[k].topics :
                             Contains(SimpleLower[k].topics[t], query_lower)
                    /\ sentiment # None => MOCK[k].sentiment = sentiment}
        filtered_articles == Pick(MOCK, keep)
        offset == (page - 1) * size
    IN  Answer(200, Slice(filtered_articles, offset, size),
               Len(filtered_articles))

Request(query, sentiment, page, size, segment) ==
    [query |-> query, sentiment |-> sentiment, page |-> page, size |-> size,
     segment |-> segment]

\* the HealthStatus of a response that is not one of /healthz
NoHealth == [status |-> "none", elasticsearch |-> "none", kafka |-> "none",
             mode |-> "none"]

Response(app, op, request, answer) ==
    [app |-> app, op |-> op, request |-> request, status |-> answer.status,
     articles |-> answer.articles, total |-> answer.total,
     health |-> IF "health" \in DOMAIN answer THEN answer.health ELSE NoHealth]

\* GET /search of main.py
SearchArticles(query, sentiment, page, size) ==
    /\ served < MaxRequests
    /\ served' = served + 1
    /\ apiResponse' =
          Response("main", "search",
                   Request(query, sentiment, page, size, None),
                   search_articles(query, sentiment, page, size))
    /\ UNCHANGED <<parserVars, pipelineVars, ingestorVars, enricherVars,
                   consumerVars, es_available, mockTimes,
                   textVars>>

\* GET /search of simple_api.py
SimpleSearch(query, sentiment, page, size) ==
    /\ served < MaxRequests
    /\ served' = served + 1
    /\ apiResponse' =
          Response("simple", "search",
                   Request(query, sentiment, page, size, None),
                   search_articles_get(query, sentiment, page, size))
    /\ UNCHANGED <<parserVars, pipelineVars, ingestorVars, enricherVars,
                   consumerVars, es_available, mockTimes,
                   textVars>>

\* GET /articles/<segment> of main.py: an article id, or "latest"
GetArticles(segment) ==
    /\ served < MaxRequests
    /\ served' = served + 1
    /\ \E answer \in IF RouteOf(segment) = "get_article"
                     THEN get_article(segment)
                     ELSE {get_latest_articles(DefaultLimit)} :
          apiResponse' =
              Response("main", IF segment = "latest" THEN "latest" ELSE "article",
                       Request(<<>>, None, 1, DefaultLimit, segment), answer)
    /\ UNCHANGED <<parserVars, pipelineVars, ingestorVars, enricherVars,
                   consumerVars, es_available, mockTimes,
                   textVars>>

\* GET /stats of main.py
GetStats ==
    /\ served < MaxRequests
    /\ served' = served + 1
    /\ apiResponse' =
          Response("main", "stats", Request(<<>>, None, 1, DefaultLimit, None),
                   get_stats)
    /\ UNCHANGED <<parserVars, pipelineVars, ingestorVars, enricherVars,
                   consumerVars, es_available, mockTimes,
                   textVars>>

\* mutant: the overall status follows the sub-statuses
health_check_strict(es_status, kafka_status) ==
    LET es_health == IF es_available THEN es_status ELSE "unavailable"
    IN  [status |-> 200, articles |-> <<>>, total |-> 0,
         health |-> [status |-> IF es_health \in {"green", "unavailable"}
                                   /\ kafka_status = "healthy"
                                THEN "healthy" ELSE "unhealthy",
                     elasticsearch |-> es_health, kafka |-> kafka_status,
                     mode |-> IF es_available THEN "elasticsearch"
                              ELSE "mock"]]

\* main.py health_check: es_status is the status check_elasticsearch
\* reports, kafka_status the one check_kafka reports
health_check(es_status, kafka_status) ==
    LET es_health == IF es_available THEN es_status ELSE "unavailable"
    IN  [status |-> 200, articles |-> <<>>, total |-> 0,
         health |-> [status |-> "healthy",
                     elasticsearch |-> es_health, kafka |-> kafka_status,
                     mode |-> IF es_available THEN "elasticsearch"
                              ELSE "mock"]]

\* GET /healthz of main.py
HealthCheck(es_status, kafka_status) ==
    /\ apiResponse' =
          Response("main", "health",
                   Request(<<>>, None, 1, DefaultLimit, None),
                   health_check(es_status, kafka_status))
    /\ UNCHANGED <<parserVars, pipelineVars, ingestorVars, enricherVars,
                   consumerVars, es_available, mockTimes, served,
                   textVars>>

\* what the store's cluster health and the bus's describe_cluster can
\* report, "unhealthy" when the check raised
EsStatuses == {"green", "yellow", "red", "unhealthy"}
KafkaStatuses == {"healthy", "unhealthy"}

\* the requests of the model
Queries == {<<>>, <<"A", "I">>, <<"c", "l", "i", "m", "a", "t", "e">>,
            <<"n", "a">>, <<"z", "z">>}
Sentiments == {None, "positive"}
Pages == 1..MaxPage
Sizes == 1..MaxSize
Segments == {"1", "3", "9", "id1", "latest"}

ApiNext ==
    \/ \E query \in Queries, sentiment \in Sentiments, page \in Pages,
          size \in Sizes :
          \/ SearchArticles(query, sentiment, page, size)
          \/ SimpleSearch(query, sentiment, page, size)
    \/ \E segment \in Segments : GetArticles(segment)
    \/ GetStats
    \/ \E es_status \in EsStatuses, kafka_status \in KafkaStatuses :
          HealthCheck(es_status, kafka_status)

(***************************************************************************)
(* Initial states and specifications.                                      *)
(***************************************************************************)
ParserInit(messages, preloaded) ==
    /\ rawTopic = [i \in 1..Len(messages) |-> Message(messages[i].id, messages[i])]
    /\ rawPending = 1..Len(messages)
    /\ pc = [w \in Workers |-> "poll"]
    /\ msg = [w \in Workers |-> 0]
    /\ cleaned = [w \in Workers |-> <<>>]
    /\ pending_hash = [w \in Workers |-> <<>>]
    /\ seen_hashes = [w \in Workers |-> {}]
    /\ seen_other = [w \in Workers |-> preloaded]
    /\ redis = {}
    /\ redisUp = TRUE
    /\ now = 0 /\ ticks = 0 /\ faults = 0
    /\ cleanedTopic = <<>>
    /\ acceptLog = {} /\ dropLog = {}

PipelineInit(translation, credential) ==
    /\ enable_translation = translation
    /\ llm = credential
    /\ cleanedOffset = 0
    /\ normalizedTopic = <<>> /\ normalizedOffset = 0
    /\ enrichedTopic = <<>> /\ enrichedOffset = 0
    /\ batch = <<>>
    /\ esDocs = {} /\ esIndices = {}
    /\ month = 1
    /\ indexerPc = "run"

IngestorInit(key) ==
    /\ ingPc = "start"
    /\ feed_results = <<>> /\ api_articles = <<>> /\ all_articles = <<>>
    /\ pubIdx = 1
    /\ nextId = 1
    /\ newsapi_key = key
    /\ ingNow = 0 /\ cycleStart = 0 /\ prevStart = -1 /\ prevEnd = 0
    /\ prevRaised = FALSE
    /\ cycles = 0
    /\ producerClosed = FALSE
    /\ getLog = [f \in Feeds |-> 0] /\ feedLog = <<>> /\ publishLog = <<>>

\* nothing committed, nothing requested yet
ConsumerInit ==
    /\ committed = 0
    /\ bulkLog = <<>>
    /\ skipLog = {}
    /\ ensureLog = {}

\* no method of the enricher has run on the text
TextInit(text) ==
    /\ article_text = text
    /\ method = "none"
    /\ submitted = <<>>

NoResponse ==
    Response("none", "none", Request(<<>>, None, 1, 1, None),
             Answer(0, <<>>, 0))

ApiInit(available) ==
    /\ es_available = available
    /\ apiResponse = NoResponse
    /\ mockTimes = [i \in 1..3 |-> 1]
    /\ served = 0

EnricherInit(given) ==
    /\ enrPc = "idle" /\ enrMsg = 0
    /\ enrStarted = {} /\ enrDone = {} /\ enrRaised = {}
    /\ enrResults = <<>>
    /\ enrRuns = 0
    /\ enrichLog = {}
    /\ llmAnswer = given

\* the parser/deduper workers on a raw topic that holds the raw articles
Init ==
    /\ ParserInit(RawMessages, 0)
    /\ PipelineInit(FALSE, FALSE)
    /\ IngestorInit(FALSE)
    /\ EnricherInit(DefaultAnswers)
    /\ ConsumerInit
    /\ ApiInit(FALSE)
    /\ TextInit(<<>>)

Next == ParserNext
Spec == Init /\ [][Next]_vars

\* the workers after CacheLimit articles with other hashes went through them
InitCache ==
    /\ ParserInit(RawMessages, CacheLimit)
    /\ PipelineInit(FALSE, FALSE)
    /\ IngestorInit(FALSE)
    /\ EnricherInit(DefaultAnswers)
    /\ ConsumerInit
    /\ ApiInit(FALSE)
    /\ TextInit(<<>>)

SpecCache == InitCache /\ [][ParserNext]_vars

InitPipeline ==
    /\ ParserInit(PipelineMessages, 0)
    /\ \E translation, credential \in BOOLEAN :
          PipelineInit(translation, credential)
    /\ IngestorInit(FALSE)
    /\ EnricherInit(DefaultAnswers)
    /\ ConsumerInit
    /\ ApiInit(FALSE)
    /\ TextInit(<<>>)

SpecPipeline == InitPipeline /\ [][PipelineNext]_vars

\* the raw articles of the copy specification: one whose title has
\* whitespace around it, and one of another hash
CopyMessages ==
    << RawArticle("id2", "u2", TitleAPadded, ContentLongVariant),
       RawArticle("id3", "u3", TitleB, ContentLong) >>

\* the four stages on the copy messages
InitCopy ==
    /\ ParserInit(CopyMessages, 0)
    /\ \E translation, credential \in BOOLEAN :
          PipelineInit(translation, credential)
    /\ IngestorInit(FALSE)
    /\ EnricherInit(DefaultAnswers)
    /\ ConsumerInit
    /\ ApiInit(FALSE)
    /\ TextInit(<<>>)

SpecCopy == InitCopy /\ [][PipelineNext]_vars

\* the parser workers on the colliding articles
InitCollide ==
    /\ ParserInit(CollideMessages, 0)
    /\ PipelineInit(FALSE, FALSE)
    /\ IngestorInit(FALSE)
    /\ EnricherInit(DefaultAnswers)
    /\ ConsumerInit
    /\ ApiInit(FALSE)
    /\ TextInit(<<>>)

SpecCollide == InitCollide /\ [][ParserNext]_vars

\* a method of the enricher truncates the text for its model call
Truncate(call) ==
    /\ method = "none"
    /\ method' = call
    /\ submitted' = truncate_text(article_text, MaxChars(call))
    /\ UNCHANGED <<parserVars, pipelineVars, ingestorVars, enricherVars,
                   consumerVars, apiVars, article_text>>

\* the summary call raised: generate_summary returns its fallback
SummaryRaises ==
    /\ method = "none"
    /\ method' = "fallback"
    /\ submitted' = generate_summary(TitleA, article_text, <<>>, TRUE)
    /\ UNCHANGED <<parserVars, pipelineVars, ingestorVars, enricherVars,
                   consumerVars, apiVars, article_text>>

TextNext ==
    \/ \E call \in Calls : Truncate(call)
    \/ SummaryRaises

\* by how much the texts go beyond a cap
MaxOver == 1

\* the lengths of the texts: none, one, and around each cap
TextLengths ==
    {0, 1} \cup {MaxChars(call) + d : call \in Calls, d \in (0 - 1)..MaxOver}

\* where the texts have a '.': at the start, at a cap, right after a cap
DotPositions ==
    {1} \cup {MaxChars(call) + d : call \in Calls, d \in 0..1}

DotSets == {{}} \cup {{p} : p \in DotPositions} \cup {{1, p} : p \in DotPositions}

\* the text of the length with a '.' at the positions
TextOf(length, dots) == [i \in 1..length |-> IF i \in dots THEN "." ELSE "a"]

\* the methods of the enricher on one text
InitText ==
    /\ ParserInit(<<>>, 0)
    /\ PipelineInit(FALSE, TRUE)
    /\ IngestorInit(FALSE)
    /\ EnricherInit(DefaultAnswers)
    /\ ConsumerInit
    /\ ApiInit(FALSE)
    /\ \E length \in TextLengths, dots \in DotSets :
          TextInit(TextOf(length, dots))

SpecText == InitText /\ [][TextNext]_vars

\* free-form metadata of raw articles: plain, and with a key of the name a
\* later stage uses
MetadataMaps ==
    << [feed_url |-> "f1"],
       [feed_url |-> "f1", normalization |-> [origin |-> "feed"]],
       [feed_url |-> "f1", enrichment |-> [origin |-> "feed"]] >>

\* three raw articles of different hashes, one per metadata map
MetadataMessages ==
    << [RawArticle("id1", "u1", TitleA, ContentLong)
            EXCEPT !.metadata = MetadataMaps[1]],
       [RawArticle("id5", "u5", TitleB, ContentLongVariant)
            EXCEPT !.metadata = MetadataMaps[2]],
       [RawArticle("id6", "u6", <<"C">>, ContentLong)
            EXCEPT !.metadata = MetadataMaps[3]] >>

\* the parser, the normalizer and the enricher on the metadata messages
InitMetadata ==
    /\ ParserInit(MetadataMessages, 0)
    /\ \E credential \in BOOLEAN : PipelineInit(FALSE, credential)
    /\ IngestorInit(FALSE)
    /\ EnricherInit(DefaultAnswers)
    /\ ConsumerInit
    /\ ApiInit(FALSE)
    /\ TextInit(<<>>)

SpecMetadata == InitMetadata /\ [][StagesNext]_vars

InitIngestor ==
    /\ ParserInit(<<>>, 0)
    /\ PipelineInit(FALSE, FALSE)
    /\ \E key \in BOOLEAN : IngestorInit(key)
    /\ EnricherInit(DefaultAnswers)
    /\ ConsumerInit
    /\ ApiInit(FALSE)
    /\ TextInit(<<>>)

\* the cleaned record the parser publishes for a raw article
CleanedOf(raw_article) ==
    CleanedArticle(raw_article, PreparedOf(raw_article).text,
                   PreparedOf(raw_article).content_hash, FALSE)

\* the stages behind the parser when the normalizer, with translation
\* enabled, has published an English record and a French record with its
\* translations
NormalizedInit ==
    /\ enable_translation = TRUE
    /\ \E credential \in BOOLEAN : llm = credential
    /\ cleanedOffset = 0
    /\ normalizedTopic =
          [i \in DOMAIN EnricherMessages |->
              LET n == normalize_article(CleanedOf(EnricherMessages[i]),
                                         IF i = 1 THEN "en" ELSE "fr", TRUE, TRUE)
              IN  Message(n.id, n)]
    /\ normalizedOffset = 0
    /\ enrichedTopic = <<>> /\ enrichedOffset = 0
    /\ batch = <<>>
    /\ esDocs = {} /\ esIndices = {}
    /\ month = 1
    /\ indexerPc = "run"

\* the enricher, message by message, with a model that gives the answers of
\* one of the bundles
InitAnswers ==
    /\ ParserInit(<<>>, 0)
    /\ NormalizedInit
    /\ IngestorInit(FALSE)
    /\ \E answers \in AnswerBundles : EnricherInit(answers)
    /\ ConsumerInit
    /\ ApiInit(FALSE)
    /\ TextInit(<<>>)

SpecAnswers == InitAnswers /\ [][EnricherNext]_vars

\* the enricher, call by call
InitEnricher ==
    /\ ParserInit(<<>>, 0)
    /\ NormalizedInit
    /\ IngestorInit(FALSE)
    /\ ConsumerInit
    /\ ApiInit(FALSE)
    /\ TextInit(<<>>)
    /\ \E vector \in {ModelEmbeddings, Rep(1, EmbeddingDimension)} :
          EnricherInit([DefaultAnswers EXCEPT !.embeddings = vector])

SpecEnricher == InitEnricher /\ [][EnricherStepNext]_vars

\* the normalizer and the enricher behind a cleaned topic that holds the
\* three versions
InitOrder ==
    /\ rawTopic = <<>> /\ rawPending = {}
    /\ pc = [w \in Workers |-> "poll"]
    /\ msg = [w \in Workers |-> 0]
    /\ cleaned = [w \in Workers |-> <<>>]
    /\ pending_hash = [w \in Workers |-> <<>>]
    /\ seen_hashes = [w \in Workers |-> {}]
    /\ seen_other = [w \in Workers |-> 0]
    /\ redis = {}
    /\ redisUp = TRUE
    /\ now = 0 /\ ticks = 0 /\ faults = 0
    /\ cleanedTopic =
          [i \in DOMAIN VersionMessages |->
              Message(VersionMessages[i].id, CleanedOf(VersionMessages[i]))]
    /\ acceptLog = {} /\ dropLog = {}
    /\ \E translation \in BOOLEAN : PipelineInit(translation, FALSE)
    /\ IngestorInit(FALSE)
    /\ EnricherInit(DefaultAnswers)
    /\ ConsumerInit
    /\ ApiInit(FALSE)
    /\ TextInit(<<>>)

SpecOrder == InitOrder /\ [][NormalizerNext \/ EnricherNext]_vars

\* a raw topic whose second message is not valid JSON
PoisonMessages ==
    << RawArticle("id1", "u1", TitleA, ContentLong),
       [id |-> "id7", undecodable |-> TRUE],
       RawArticle("id5", "u5", TitleB, ContentLongVariant) >>

InitPoison ==
    /\ ParserInit(PoisonMessages, 0)
    /\ PipelineInit(FALSE, FALSE)
    /\ IngestorInit(FALSE)
    /\ EnricherInit(DefaultAnswers)
    /\ ConsumerInit
    /\ ApiInit(FALSE)
    /\ TextInit(<<>>)

SpecPoison == InitPoison /\ [][PoisonNext]_vars

\* a raw topic with an article that is too short (id3), one that fails the
\* validation (no title), a duplicate (id2 of id1) and two that pass
FailureMessages ==
    RawMessages \o << RawArticle("id8", "u8", NoText, ContentLong),
                      RawArticle("id5", "u5", TitleB, ContentLongVariant) >>

InitFailures ==
    /\ ParserInit(FailureMessages, 0)
    /\ PipelineInit(FALSE, FALSE)
    /\ IngestorInit(FALSE)
    /\ EnricherInit(DefaultAnswers)
    /\ ConsumerInit
    /\ ApiInit(FALSE)
    /\ TextInit(<<>>)

SpecFailures == InitFailures /\ [][StagesNext]_vars

\* which article each message of the enriched topic carries: the first article
\* of the pipeline is delivered three times, the second twice
Deliveries == <<1, 1, 2, 1, 2>>

\* the indexer on an enriched topic that holds the deliveries, enriched in
\* pass-through mode
InitIndexer ==
    /\ ParserInit(<<>>, 0)
    /\ IngestorInit(FALSE)
    /\ EnricherInit(DefaultAnswers)
    /\ ConsumerInit
    /\ ApiInit(FALSE)
    /\ TextInit(<<>>)
    /\ enable_translation = FALSE
    /\ llm = FALSE
    /\ cleanedOffset = 0
    /\ normalizedTopic = <<>> /\ normalizedOffset = 0
    /\ enrichedTopic =
          [i \in DOMAIN Deliveries |->
              LET e == enrich_article(
                           normalize_article(
                               CleanedOf(PipelineMessages[Deliveries[i]]),
                               "en", FALSE, FALSE), {})
              IN  Message(e.id, e)]
    /\ enrichedOffset = 0
    /\ batch = <<>>
    /\ esDocs = {} /\ esIndices = {}
    /\ month = 1
    /\ indexerPc = "run"

SpecIndexer == InitIndexer /\ [][IndexerLoopNext]_vars

\* the loop takes the next message whenever there is one
SpecIndexerLive ==
    InitIndexer /\ [][IndexerRunNext]_vars /\ WF_vars(IndexerRunNext)

SpecIndexerCrash == InitIndexer /\ [][IndexerCrashNext]_vars

\* the enriched articles of the store, with the time of publication and the
\* sentiment of each
StoredArticles ==
    << <<RawArticle("id1", "u1", TitleA, ContentLong), 3, "neutral">>,
       <<RawArticle("id5", "u5", TitleB, ContentLongVariant), 1, "neutral">>,
       <<RawArticle("id6", "u6", TitleA, ContentLongVariant), 4, "positive">>,
       <<RawArticle("id7", "u7", TitleB, ContentLong), 2, "positive">> >>

\* the documents the indexer wrote for them, two in each of two months
StoreDocs ==
    {LET e == enrich_article(
                  normalize_article(
                      CleanedOf([StoredArticles[i][1] EXCEPT
                                    !.published_at = StoredArticles[i][2]]),
                      "en", FALSE, FALSE), {})
     IN  [index |-> <<index_pattern, (i + 1) \div 2>>, id |-> e.id,
          source |-> [prepare_document(e) EXCEPT
                         !.sentiment = StoredArticles[i][3]]] :
     i \in DOMAIN StoredArticles}

\* the times datetime.now() gives while simple_api builds its list: they
\* do not go back
ImportTimes ==
    {t \in [1..3 -> 1..MaxImportTime] : \A i \in 1..2 : t[i] <= t[i + 1]}

\* the two applications started, main.py with the store reachable or not
InitApi ==
    /\ ParserInit(<<>>, 0)
    /\ IngestorInit(FALSE)
    /\ EnricherInit(DefaultAnswers)
    /\ ConsumerInit
    /\ enable_translation = FALSE
    /\ llm = FALSE
    /\ cleanedOffset = 0
    /\ normalizedTopic = <<>> /\ normalizedOffset = 0
    /\ enrichedTopic = <<>> /\ enrichedOffset = 0
    /\ batch = <<>>
    /\ esDocs = StoreDocs
    /\ esIndices = {d.index : d \in StoreDocs}
    /\ month = 2
    /\ indexerPc = "run"
    /\ \E available \in BOOLEAN : es_available = available
    /\ apiResponse = NoResponse
    /\ \E times \in ImportTimes : mockTimes = times
    /\ served = 0
    /\ TextInit(<<>>)

SpecApi == InitApi /\ [][ApiNext]_vars

SpecIngestor == InitIngestor /\ [][IngestorNext]_vars

SpecIngestorLoop == InitIngestor /\ [][IngestorLoopNext]_vars

(***************************************************************************)
(* Properties of the parser/deduper.                                       *)
(***************************************************************************)
HashesPublished == {cleanedTopic[i].value.content_hash : i \in DOMAIN cleanedTopic}
IdsPublished == {cleanedTopic[i].value.id : i \in DOMAIN cleanedTopic}

\* C1: while the store is reachable and no TTL has run out, of the raw
\* articles with one content hash exactly one is published: no two records of
\* the cleaned topic carry the same hash.
C1_OnePublishedPerHash ==
    ((\A a \in acceptLog : a.store) /\ now < dedup_window_hours) =>
        \A i, j \in DOMAIN cleanedTopic :
            i # j => cleanedTopic[i].value.content_hash
                        # cleanedTopic[j].value.content_hash

\* C2: a redelivered article whose hash was marked by its own earlier pass,
\* and which has not been published, is not dropped as a duplicate of itself.
C2_ReplaySafe == \A d \in dropLog : ~d.own

\* the length of the text after markup stripping and whitespace collapsing
CollapsedLen ==
    [i \in DOMAIN RawMessages |->
        Len(JoinSpace(SplitWords(clean_html(RawMessages[i].content))))]

\* C3: no record of the cleaned topic has a text shorter than 100 characters,
\* and no raw article whose cleaned text is shorter than that is published.
C3_NoShortCleaned ==
    /\ \A i \in DOMAIN cleanedTopic :
          Len(cleanedTopic[i].value.text) >= MinTextLen
    /\ \A i \in DOMAIN RawMessages :
          CollapsedLen[i] < MinTextLen => RawMessages[i].id \notin IdsPublished

\* C3 witness: the article with 99 cleaned characters was dropped as too short
\* and another article was published.
C3_Witness ==
    /\ \E d \in dropLog : d.reason = "short" /\ d.id = "id3"
    /\ CollapsedLen[3] = MinTextLen - 1
    /\ cleanedTopic # <<>>

\* C4: an article is not suppressed as a duplicate when its hash was last
\* accepted more than the dedup window ago.
C4_WindowExpires == \A d \in dropLog : ~d.stale

\* C5: between messages the in-process cache of a worker holds at most 10,000
\* entries.
C5_CacheBounded == \A w \in Workers : pc[w] = "poll" => CacheLen(w) <= CacheLimit

\* C6: a store failure inside is_duplicate is answered from the in-process
\* set alone: the call returns true iff the hash is in the set, else adds the
\* hash and returns false, and the worker goes on to publish the article.
C6_FallbackLocalOnly ==
    [][\A w \in Workers :
          (/\ pc[w] \in {"redis_exists", "redis_setex"}
           /\ ~redisUp
           /\ pc'[w] # pc[w]
           /\ faults' = faults) =>
             IF pending_hash[w] \in seen_hashes[w]
             THEN /\ pc'[w] = "poll"
                  /\ seen_hashes'[w] = seen_hashes[w]
                  /\ cleanedTopic' = cleanedTopic
             ELSE /\ pc'[w] = "send"
                  /\ msg'[w] = msg[w]
                  /\ seen_hashes'[w] = seen_hashes[w] \cup {pending_hash[w]}
                  /\ redis' = redis]_vars

\* C6 witness: a worker is about to publish an article that is_duplicate let
\* through on the in-process set, the store being down.
C6_Witness ==
    \E w \in Workers :
        /\ pc[w] = "send"
        /\ ~redisUp
        /\ \E a \in acceptLog : a.id = rawTopic[msg[w]].value.id /\ ~a.store
        /\ pending_hash[w] \in seen_hashes[w]
(***************************************************************************)
(* Properties of the stages that carry a record forward.                   *)
(***************************************************************************)
Topics == <<rawTopic, cleanedTopic, normalizedTopic, enrichedTopic>>

Records(topic) == {topic[i] : i \in DOMAIN topic}

Downstream ==
    {m.value : m \in Records(cleanedTopic) \cup Records(normalizedTopic)
                        \cup Records(enrichedTopic)}
        \cup {a.source : a \in Records(batch) \cup esDocs}

\* C7: at every stage the record keeps the id of the raw record it was made
\* from (the raw record with the same url), every message on a topic is keyed
\* by the id of its record, and every bulk action and stored document has the
\* id of its record as document id.
C7_IdCarried ==
    /\ \A t \in DOMAIN Topics : \A m \in Records(Topics[t]) : m.key = m.value.id
    /\ \A a \in Records(batch) \cup esDocs : a.id = a.source.id
    /\ \A r \in Downstream :
          \E raw \in Records(rawTopic) :
              raw.value.url = r.url /\ raw.value.id = r.id

\* a record went through every stage and is stored, another is on its way
C7_Witness ==
    /\ \E d \in esDocs : d.id = "id5" /\ d.source.url = "u5"
    /\ Len(enrichedTopic) = 2
    /\ Len(normalizedTopic) = 2

(***************************************************************************)
(* Properties of the ingestor.                                             *)
(***************************************************************************)
\* a cycle is running, and the one before it returned
AfterReturnedCycle ==
    ingPc \in {"fetch", "publish"} /\ prevStart >= 0 /\ ~prevRaised

\* a cycle is running, and the one before it raised
AfterRaisedCycle ==
    ingPc \in {"fetch", "publish"} /\ prevStart >= 0 /\ prevRaised

\* C8: a cycle starts exactly interval seconds after the start of the cycle
\* before it when that one did not overrun the interval, and never right at
\* the end of the one before it.
C8_FixedRate ==
    AfterReturnedCycle =>
        /\ (prevEnd - prevStart <= interval => cycleStart = prevStart + interval)
        /\ cycleStart > prevEnd

\* C9: after a cycle that raised the next cycle starts 60 seconds later, and
\* when the loop has ended the producer is closed.
C9_RetryThenClose ==
    /\ AfterRaisedCycle => cycleStart = prevEnd + RetryWait
    /\ ingPc = "stopped" => producerClosed

GoodEntries(f) ==
    IF feedLog[f].kind = "ok"
    THEN {k \in DOMAIN feedLog[f].entries : feedLog[f].entries[k] # "bad"}
    ELSE {}

FeedPart == SelectSeq(all_articles, LAMBDA a : a \notin Records(api_articles))

\* C10: in a cycle every feed is fetched with one GET; once the fetches are
\* over, the articles collected are those of the feeds that answered, in the
\* order of the feeds, whatever the other feeds did; every article collected
\* gets one publish attempt, keyed by its id, whatever the other attempts
\* did, and those that succeeded are on the raw topic.
C10_FailuresIsolated ==
    /\ \A f \in Feeds : getLog[f] = IF f \in DOMAIN feed_results THEN 1 ELSE 0
    /\ ingPc \in {"publish", "sleep"} =>
          /\ \A f \in Feeds : getLog[f] = 1
          /\ {a.url : a \in Records(FeedPart)}
                 = UNION {{<<"link", f, k>> : k \in GoodEntries(f)} : f \in Feeds}
          /\ \A i, j \in DOMAIN FeedPart :
                 i < j => \/ FeedPart[i].url[2] < FeedPart[j].url[2]
                          \/ /\ FeedPart[i].url[2] = FeedPart[j].url[2]
                             /\ FeedPart[i].url[3] < FeedPart[j].url[3]
          /\ \A i, j \in DOMAIN all_articles :
                 i # j => all_articles[i].id # all_articles[j].id
          /\ Len(publishLog) = pubIdx - 1
          /\ publishLog = [i \in 1..(pubIdx - 1) |->
                              [key |-> all_articles[i].id,
                               id |-> all_articles[i].id,
                               ok |-> publishLog[i].ok]]
          /\ pubIdx <= Len(all_articles) + 1
          /\ \A i \in DOMAIN publishLog :
                 Cardinality({n \in DOMAIN rawTopic :
                                 rawTopic[n] = Message(all_articles[i].id,
                                                       all_articles[i])})
                     = IF publishLog[i].ok THEN 1 ELSE 0
    /\ ingPc = "sleep" => Len(publishLog) = Len(all_articles)

\* one feed failed and the other was collected; the first send failed and
\* the second went through; the cycle is over
C10_Witness ==
    /\ ingPc = "sleep"
    /\ \E f, g \in Feeds : feedLog[f].kind # "ok" /\ GoodEntries(g) # {}
    /\ Len(publishLog) >= 2
    /\ ~publishLog[1].ok /\ publishLog[2].ok
    /\ Len(rawTopic) = 1

(***************************************************************************)
(* Properties of the enricher.                                             *)
(***************************************************************************)
\* C11: in LLM mode, once one of the five model calls of an article has
\* completed, all five have been started.
C11_CallsConcurrent ==
    (llm /\ enrPc = "calls" /\ enrDone # {}) => enrStarted = Calls

\* the record a run was handed
LogInput(e) == normalizedTopic[e.src].value

\* the sentence-based fallback for the records of the normalized topic,
\* written out: the text up to its second full stop, the stops followed by a
\* space, and a full stop; the English record has no full stop, the French
\* record is analysed in its translation
ExpectedFallback ==
    << Rep("a", 60) \o <<" ">> \o Rep("b", 39) \o <<".">>,
       <<"[en]">> \o Rep("a", 99) \o <<".", " ", " ">> \o Rep("b", 99) \o <<".">> >>

ZeroVector == [k \in 1..768 |-> 0]

\* C12: in LLM mode every run makes the five calls whichever of them raise,
\* builds one EnrichedArticle and attempts one publish, on the topic when the
\* send succeeds; the field of a call that raised holds its fallback, the
\* field of a call that returned holds the parsed answer of the model.
C12_FallbackPerField ==
    /\ Cardinality(enrichLog) = enrRuns - (IF enrPc = "idle" THEN 0 ELSE 1)
    /\ \A e1, e2 \in enrichLog : e1.run = e2.run => e1 = e2
    /\ Len(enrichedTopic) = Cardinality({e \in enrichLog : e.ok})
    /\ \A e \in enrichLog : e.ok =>
          \E i \in DOMAIN enrichedTopic : enrichedTopic[i].value = e.out
    /\ llm => \A e \in enrichLog :
          /\ e.calls = Calls
          /\ e.out.id = LogInput(e).id
          /\ e.out.text = LogInput(e).text
          /\ e.out.summary = IF "summary" \in e.raised
                             THEN ExpectedFallback[e.src] ELSE <<"S", ".">>
          /\ e.out.topics = IF "topics" \in e.raised THEN <<>>
                            ELSE << <<"a", "i">>, <<"t", "e", "c", "h">> >>
          /\ e.out.entities = IF "entities" \in e.raised THEN <<>>
                              ELSE << <<"a", "c", "m", "e">> >>
          /\ e.out.sentiment = IF "sentiment" \in e.raised THEN "neutral"
                               ELSE "positive"
          /\ e.out.sentiment_score = IF "sentiment" \in e.raised THEN 5 ELSE 8
          /\ e.out.embeddings = IF "embeddings" \in e.raised THEN ZeroVector
                                ELSE llmAnswer.embeddings

\* the summary and the sentiment calls raised, the others returned, and the
\* record of the French article is on the topic
C12_Witness ==
    /\ llm
    /\ \E e \in enrichLog :
          /\ e.raised = {"summary", "sentiment"}
          /\ e.src = 2 /\ e.ok
          /\ e.out.topics # <<>>
          /\ e.out.sentiment_score = 5

\* C13: in pass-through mode a run makes no model call and builds a record
\* whose summary is the text, cut to 200 characters and "..." when it is
\* longer, with the fixed topics, no entities, neutral sentiment of score 0,
\* no embeddings and the enrichment block of the degraded mode.
C13_PassThrough ==
    ~llm => \A e \in enrichLog :
        LET text == LogInput(e).text
            block == e.out.metadata["enrichment"]
        IN  /\ e.calls = {}
            /\ e.out.id = LogInput(e).id
            /\ e.out.summary =
                  IF Len(text) <= 200 THEN text
                  ELSE [k \in 1..203 |-> IF k <= 200 THEN text[k] ELSE "."]
            /\ e.out.topics = <<"general", "news">>
            /\ e.out.entities = <<>>
            /\ e.out.sentiment = "neutral"
            /\ e.out.sentiment_score = 0
            /\ e.out.embeddings = <<>>
            /\ block.model = "pass-through"
            /\ block.embedding_model = "none"
            /\ block.enriched_at = e.at
            /\ \A key \in DOMAIN LogInput(e).metadata :
                  e.out.metadata[key] = LogInput(e).metadata[key]

\* both records went through in pass-through mode: the one of 100 characters
\* and the one of 204
C13_Witness ==
    /\ ~llm
    /\ \E e \in enrichLog : e.src = 1 /\ Len(e.out.summary) = 100 /\ e.ok
    /\ \E e \in enrichLog : e.src = 2 /\ Len(e.out.summary) = 203 /\ e.ok

\* C14 as stated: in pass-through mode two runs on the same record build
\* equal records, metadata included.
C14_PassThroughPure ==
    ~llm => \A e1, e2 \in enrichLog : e1.src = e2.src => e1.out = e2.out

Unstamped(record) ==
    [record EXCEPT !.metadata =
        [@ EXCEPT !["enrichment"] = [@ EXCEPT !.enriched_at = 0]]]

\* C14 amended: in pass-through mode two runs on the same record build
\* records that are equal in every field but metadata.enrichment.enriched_at,
\* which is the time of the run.
C14_PureUpToTimestamp ==
    ~llm => \A e1, e2 \in enrichLog :
        e1.src = e2.src =>
            /\ Unstamped(e1.out) = Unstamped(e2.out)
            /\ e1.out.metadata["enrichment"].enriched_at = e1.at

\* the same record was enriched twice, at two times
C14_Witness ==
    /\ ~llm
    /\ \E e1, e2 \in enrichLog : e1.src = e2.src /\ e1.at # e2.at

\* C15: every EnrichedArticle on the topic has 0 or 768 embeddings.
C15_EmbeddingLength ==
    \A i \in DOMAIN enrichedTopic :
        Len(enrichedTopic[i].value.embeddings) \in {0, EmbeddingDimension}

\* the places of an answer where a piece starts: after its start and after
\* each comma
PieceStarts(a) == {0} \cup {i \in 1..Len(a) : a[i] = ","}

\* the end of the piece that starts after b: the next comma or the end
PieceEnd(a, b) ==
    LET later == {i \in (b + 1)..Len(a) : a[i] = ","}
    IN  IF later = {} THEN Len(a) + 1 ELSE CHOOSE i \in later : \A j \in later : i <= j

\* the places of the piece after b that hold no whitespace
Inked(a, b) == {i \in (b + 1)..(PieceEnd(a, b) - 1) : a[i] \notin {" ", "\n", "\t"}}

First(S) == CHOOSE i \in S : \A j \in S : i <= j
Last(S) == CHOOSE i \in S : \A j \in S : i >= j

\* the pieces that make an item: at least 2 characters from the first to the
\* last that is no whitespace
ItemStarts(a) ==
    {b \in PieceStarts(a) :
        Inked(a, b) # {} /\ Last(Inked(a, b)) - First(Inked(a, b)) + 1 >= 2}

\* items is the list of the first cap items of the answer, trimmed, in order
FirstItems(items, a, cap) ==
    /\ Len(items) = IF Cardinality(ItemStarts(a)) < cap
                    THEN Cardinality(ItemStarts(a)) ELSE cap
    /\ \A n \in 1..Len(items) :
          \E b \in ItemStarts(a) :
              /\ Cardinality({c \in ItemStarts(a) : c < b}) = n - 1
              /\ items[n] = SubSeq(a, First(Inked(a, b)), Last(Inked(a, b)))

\* C16: in LLM mode a published record has at most 5 topics and at most 10
\* entities; unless the call raised (an empty list), the lists are the first
\* 5 and the first 10 comma-separated pieces of the model's answer that have
\* at least 2 characters once trimmed, trimmed, in the answer's order.
C16_ItemsParsed ==
    llm => \A i \in DOMAIN enrichedTopic :
        LET record == enrichedTopic[i].value
        IN  /\ Len(record.topics) <= 5
            /\ Len(record.entities) <= 10
            /\ \/ record.topics = <<>>
               \/ FirstItems(record.topics, llmAnswer.topics, 5)
            /\ \/ record.entities = <<>>
               \/ FirstItems(record.entities, llmAnswer.entities, 10)

\* an answer of more than 10 items was cut to 5 topics and to 10 entities
C16_Witness ==
    /\ llm
    /\ Cardinality(ItemStarts(llmAnswer.topics)) > 10
    /\ \E i \in DOMAIN enrichedTopic :
          /\ Len(enrichedTopic[i].value.topics) = 5
          /\ Len(enrichedTopic[i].value.entities) = 10

\* the answer holds the word, in any letter case
HasWord(a, word) ==
    \E i \in 1..(Len(a) - Len(word) + 1) :
        \A k \in 1..Len(word) : LowerChar(a[i + k - 1]) = word[k]

\* C17: every published record has a sentiment among positive, negative and
\* neutral and a score between -1 and 1 (in tenths); in LLM mode, unless the
\* call raised (neutral, 0.5), an answer that holds "positive" gives
\* (positive, 0.8), else one that holds "negative" gives (negative, 0.8),
\* and any other gives (neutral, 0.7).
C17_SentimentMapped ==
    \A i \in DOMAIN enrichedTopic :
        LET record == enrichedTopic[i].value
            pair == <<record.sentiment, record.sentiment_score>>
        IN  /\ record.sentiment \in {"positive", "negative", "neutral"}
            /\ record.sentiment_score >= -10 /\ record.sentiment_score <= 10
            /\ IF ~llm THEN pair = <<"neutral", 0>>
               ELSE \/ pair = <<"neutral", 5>>
                    \/ pair = IF HasWord(llmAnswer.sentiment, Chars("positive"))
                              THEN <<"positive", 8>>
                              ELSE IF HasWord(llmAnswer.sentiment, Chars("negative"))
                              THEN <<"negative", 8>>
                              ELSE <<"neutral", 7>>

\* an answer that holds both words gave positive
C17_Witness ==
    /\ llm
    /\ HasWord(llmAnswer.sentiment, Chars("negative"))
    /\ \E i \in DOMAIN enrichedTopic :
          /\ enrichedTopic[i].value.sentiment = "positive"
          /\ enrichedTopic[i].value.sentiment_score = 8

\* C18: every record the normalizer published has both translated fields
\* set if translation is enabled and its language differs from the target
\* language, and both null otherwise.
C18_TranslatedIff ==
    \A i \in DOMAIN normalizedTopic :
        LET record == normalizedTopic[i].value
        IN  IF enable_translation /\ record.language # target_language
            THEN record.translated_title # NoText /\ record.translated_text # NoText
            ELSE record.translated_title = NoText /\ record.translated_text = NoText

\* the places of a text where a word starts: no whitespace, at the start or
\* after whitespace
WordStarts(text) ==
    {i \in 1..Len(text) :
        /\ text[i] \notin {" ", "\n", "\t"}
        /\ (i = 1 \/ text[i - 1] \in {" ", "\n", "\t"})}

\* C19: the word_count of every normalized record is the number of words of
\* its untranslated text, and every enriched record and every indexed
\* document carries the word_count of the normalized record it came from.
C19_WordCount ==
    /\ \A i \in DOMAIN normalizedTopic :
          normalizedTopic[i].value.word_count
              = Cardinality(WordStarts(normalizedTopic[i].value.text))
    /\ \A i \in DOMAIN enrichedTopic :
          /\ enrichedTopic[i].value.word_count
                = Cardinality(WordStarts(enrichedTopic[i].value.text))
          /\ \E j \in DOMAIN normalizedTopic :
                /\ normalizedTopic[j].value.id = enrichedTopic[i].value.id
                /\ normalizedTopic[j].value.text = enrichedTopic[i].value.text
                /\ normalizedTopic[j].value.word_count
                      = enrichedTopic[i].value.word_count
    /\ \A d \in esDocs :
          /\ d.source.word_count = Cardinality(WordStarts(d.source.text))
          /\ \E j \in DOMAIN normalizedTopic :
                /\ normalizedTopic[j].value.id = d.id
                /\ normalizedTopic[j].value.word_count = d.source.word_count

\* a translated article of two words is indexed with word_count 2
C19_Witness ==
    \E d \in esDocs :
        /\ d.source.word_count = 2
        /\ d.source.translated_text # NoText

\* C20: the batch holds fewer actions than the batch size before and after
\* every step of the indexer, and a message whose action brings the batch to
\* the batch size leaves it empty: the flush happens in the same call.
C20_BatchBounded ==
    [][/\ Len(batch) < batch_size
       /\ Len(batch') < batch_size
       /\ enrichedOffset' # enrichedOffset =>
             IF Len(batch) + 1 >= batch_size THEN batch' = <<>>
             ELSE Len(batch') = Len(batch) + 1]_vars

\* a flush from add_to_batch: documents are stored, the batch is empty and the
\* indexer runs
C20_Witness ==
    /\ indexerPc = "run"
    /\ enrichedOffset >= batch_size
    /\ batch = <<>>
    /\ esDocs # {}

(***************************************************************************)
(* Properties of the indexer's loop.                                       *)
(***************************************************************************)
\* the bulk request that submitted the message at offset i, if any
Submitted(i) ==
    {k \in DOMAIN bulkLog : bulkLog[k].first <= i /\ i <= bulkLog[k].last}

\* C21: a bulk request that fails leaves the buffer empty and the worker in
\* its loop; no later bulk request holds a message of a failed one, and a
\* message that does not fill the batch is buffered behind what is there.
C21_FailedBatchDropped ==
    [][/\ Len(bulkLog') > Len(bulkLog) =>
             LET request == bulkLog'[Len(bulkLog')]
             IN  /\ \A k \in DOMAIN bulkLog :
                       ~bulkLog[k].ok => request.first > bulkLog[k].last
                 /\ ~request.ok =>
                       /\ batch' = <<>>
                       /\ request.at = "add_to_batch" => indexerPc' = "run"
       /\ (enrichedOffset' # enrichedOffset /\ bulkLog' = bulkLog) =>
             /\ Len(batch') = Len(batch) + 1
             /\ indexerPc' = "run"]_vars

\* a failed bulk request from add_to_batch is followed by a later message
\* in the buffer and then by a bulk request that succeeded
C21_Witness ==
    /\ indexerPc = "run"
    /\ \E k \in DOMAIN bulkLog :
          /\ ~bulkLog[k].ok
          /\ bulkLog[k].at = "add_to_batch"
          /\ k + 1 \in DOMAIN bulkLog
          /\ bulkLog[k + 1].ok
          /\ bulkLog[k + 1].first = bulkLog[k].last + 1

\* C22: once the loop has ended the buffer is empty, every message consumed
\* was submitted in exactly one bulk request, the last of them ending with
\* the last message consumed, at most one bulk request was made on the way
\* out and none was made for an empty buffer.
C22_FlushOnExit ==
    indexerPc = "stopped" =>
        /\ batch = <<>>
        /\ committed = enrichedOffset
        /\ \A i \in 1..enrichedOffset : Cardinality(Submitted(i)) = 1
        /\ enrichedOffset > 0 => bulkLog[Len(bulkLog)].last = enrichedOffset
        /\ \A k \in DOMAIN bulkLog : bulkLog[k].first <= bulkLog[k].last
        /\ Cardinality({k \in DOMAIN bulkLog :
                           bulkLog[k].at \in {"interrupt", "finally"}}) <= 1

\* an interrupt found a buffered action and flushed it behind earlier
\* requests
C22_Witness ==
    /\ indexerPc = "stopped"
    /\ Len(bulkLog) >= 2
    /\ bulkLog[Len(bulkLog)].at = "interrupt"
    /\ bulkLog[Len(bulkLog)].first = bulkLog[Len(bulkLog)].last

\* C23: whatever was delivered, the store holds at most one document for an
\* article id across the monthly indices.
C23_OneDocumentPerId ==
    \A d1, d2 \in esDocs : d1.id = d2.id => d1 = d2

\* C24: every message the indexer has consumed is eventually submitted to the
\* store, without a shutdown.
C24_EventuallySubmitted ==
    \A i \in DOMAIN Deliveries :
        (enrichedOffset >= i) ~> (Submitted(i) # {})

\* C25: no offset is committed for a message that was not yet submitted in a
\* bulk request.
C25_CommitAfterWrite ==
    \A i \in 1..committed : Submitted(i) # {}

(***************************************************************************)
(* Properties of the consume loops.                                        *)
(***************************************************************************)
\* the offsets up to offset whose message did not fail at the stage
Kept(stage, offset) == {o \in 1..offset : <<stage, o>> \notin skipLog}

\* the k-th element of a set of numbers
Kth(S, k) == CHOOSE o \in S : Cardinality({x \in S : x < o}) = k - 1

\* the output topic holds, in order, one record for each consumed message of
\* the input topic that did not fail, with its key, id and text
PassedOn(stage, input, offset, output) ==
    /\ Len(output) = Cardinality(Kept(stage, offset))
    /\ \A k \in DOMAIN output :
          LET in == input[Kth(Kept(stage, offset), k)]
          IN  /\ output[k].key = in.key
              /\ output[k].value.id = in.value.id
              /\ output[k].value.text = in.value.text

C27_PoisonSkipped ==
    \A w \in Workers : pc[w] # "ended"

\* where the record's version (its id and text) is on the topic
Position(topic, record) ==
    CHOOSE k \in DOMAIN topic :
        topic[k].value.id = record.id /\ topic[k].value.text = record.text

\* two records of one id are on the output topic in the order of their
\* versions on the input topic
SameOrder(input, output) ==
    \A i, j \in DOMAIN output :
        (i < j /\ output[i].value.id = output[j].value.id) =>
            Position(input, output[i].value) < Position(input, output[j].value)

Elements(s) == {s[k] : k \in DOMAIN s}

\* every article that matches a search request: what the handler finds on
\* one page that is large enough to hold the corpus
Matching(response) ==
    LET request == response.request
    IN  Elements(
            IF response.app = "simple"
            THEN search_articles_get(request.query, request.sentiment, 1,
                                     DefaultLimit).articles
            ELSE search_articles(request.query, request.sentiment, 1,
                                 DefaultLimit).articles)

\* C29: a successful search response holds, in descending order of
\* published_at, the matching articles at the positions (page-1)*size up to
\* page*size-1 of the whole ordered result, and total counts the matching
\* articles.
C29_PagesOfSortedResult ==
    (apiResponse.op = "search" /\ apiResponse.status = 200) =>
        LET whole == Matching(apiResponse)
            offset == (apiResponse.request.page - 1) * apiResponse.request.size
            rest == Cardinality(whole) - offset
            Later(a) == {b \in whole : b.published_at > a.published_at}
            NotEarlier(a) == {b \in whole : b.published_at >= a.published_at}
        IN  /\ apiResponse.total = Cardinality(whole)
            /\ Len(apiResponse.articles) =
                  IF rest < 0 THEN 0
                  ELSE IF rest < apiResponse.request.size THEN rest
                  ELSE apiResponse.request.size
            /\ \A k \in DOMAIN apiResponse.articles :
                  LET a == apiResponse.articles[k]
                  IN  /\ a \in whole
                      /\ Cardinality(Later(a)) <= offset + k - 1
                      /\ Cardinality(NotEarlier(a)) >= offset + k

\* C30: without the store, search, latest and stats succeed, the article of
\* a mock id is returned, and the first page of the search for AI holds the
\* mock article of that title.
C30_MockServesReads ==
    (apiResponse.app = "main" /\ ~es_available) =>
        /\ apiResponse.op \in {"search", "latest", "stats"} =>
              apiResponse.status = 200
        /\ (/\ apiResponse.op = "article"
            /\ \E k \in DOMAIN MOCK_ARTICLES :
                  MOCK_ARTICLES[k].id = apiResponse.request.segment) =>
              /\ apiResponse.status = 200
              /\ \E k \in DOMAIN apiResponse.articles :
                    apiResponse.articles[k].id = apiResponse.request.segment
        /\ (/\ apiResponse.op = "search"
            /\ apiResponse.request.query = <<"A", "I">>
            /\ apiResponse.request.sentiment = None
            /\ apiResponse.request.page = 1) =>
              \E k \in DOMAIN apiResponse.articles :
                  apiResponse.articles[k].title = MockTitle1

\* the articles are in descending order of published_at
Descending(articles) ==
    \A i, j \in DOMAIN articles :
        i < j => articles[i].published_at >= articles[j].published_at

\* C31: GET /articles/latest is answered by the latest-articles operation:
\* successfully, with at most limit articles in descending order of
\* published_at, and never with the 404 of the article-by-id operation.
C31_LatestServed ==
    apiResponse.op = "latest" =>
        /\ apiResponse.status = 200
        /\ Len(apiResponse.articles) <= apiResponse.request.size
        /\ Descending(apiResponse.articles)

\* the ids of the corpus main.py serves in its mode
ServedIds ==
    IF es_available THEN {d.source.id : d \in StoreHits}
    ELSE {MOCK_ARTICLES[k].id : k \in DOMAIN MOCK_ARTICLES}

\* C32: GET /articles/{id} answers 404 exactly when the corpus being served
\* has no article of the id, and otherwise succeeds with the article of the
\* id.
C32_ArticleOrNotFound ==
    (apiResponse.app = "main" /\ apiResponse.op = "article") =>
        IF apiResponse.request.segment \in ServedIds
        THEN /\ apiResponse.status = 200
             /\ Len(apiResponse.articles) = 1
             /\ apiResponse.articles[1].id = apiResponse.request.segment
        ELSE apiResponse.status = 404

\* the articles of the corpus of the mode main.py started in
ModeCorpus ==
    IF es_available THEN {d.source : d \in StoreHits}
    ELSE Elements(MOCK_ARTICLES)

\* the response agrees with the mode: health reports it, with the status
\* healthy beside the sub-statuses, and what a read returns is of its corpus
OfMode(response) ==
    /\ response.op = "health" =>
          /\ response.health.mode =
                IF es_available THEN "elasticsearch" ELSE "mock"
          /\ response.health.status = "healthy"
    /\ (response.app = "main" /\ response.status = 200) =>
          /\ Elements(response.articles) \subseteq ModeCorpus
          /\ response.op = "stats" =>
                response.total = Cardinality(ModeCorpus)

\* C33: the mode decided at startup never changes, health reports it with
\* the overall status healthy whatever the sub-statuses of the store and of
\* the bus, and every read is answered from the corpus of the mode.
C33_ModeFixed ==
    [][/\ es_available' = es_available
       /\ OfMode(apiResponse')]_vars

\* health answered in mock mode, healthy with the bus reported unhealthy,
\* after a read was answered
C33_Witness ==
    /\ ~es_available
    /\ served = 1
    /\ apiResponse.op = "health"
    /\ apiResponse.health.mode = "mock"
    /\ apiResponse.health.kafka = "unhealthy"
    /\ apiResponse.health.status = "healthy"

\* C34: every action of every bulk write targets an index that
\* ensure_index_exists was called for before the write, and that index is
\* the one named for the month at the time of the write, also when the month
\* changed since the action was enqueued.
C34_WritesTargetEnsuredMonth ==
    \A k \in DOMAIN bulkLog :
        /\ bulkLog[k].targets \subseteq ensureLog
        /\ bulkLog[k].targets = {<<index_pattern, bulkLog[k].month>>}

\* the records of a topic with the id
ById(topic, id) == {topic[i].value : i \in {j \in DOMAIN topic : topic[j].value.id = id}}

\* the fields of the record types, by the stage that introduces them
RawFields == {"url", "author", "source", "published_at", "scraped_at"}
CleanedFields == RawFields \cup {"title", "text", "content_hash"}
NormalizedFields ==
    CleanedFields \cup {"language", "translated_title", "translated_text",
                        "word_count"}

\* the output record has the input record's value in each of the fields
Copied(input, output, fields) == \A f \in fields : output[f] = input[f]

\* the normalizer, the enricher and the indexer copy every field of their
\* input, and the parser every field but the title
CopiedForward ==
    /\ \A i \in DOMAIN cleanedTopic :
          \A raw \in ById(rawTopic, cleanedTopic[i].value.id) :
              Copied(raw, cleanedTopic[i].value, RawFields)
    /\ \A i \in DOMAIN normalizedTopic :
          \A cleaned_article \in ById(cleanedTopic, normalizedTopic[i].value.id) :
              Copied(cleaned_article, normalizedTopic[i].value, CleanedFields)
    /\ \A i \in DOMAIN enrichedTopic :
          \A normalized_article \in ById(normalizedTopic, enrichedTopic[i].value.id) :
              Copied(normalized_article, enrichedTopic[i].value,
                     NormalizedFields)
    /\ \A d \in esDocs :
          \A enriched_article \in ById(enrichedTopic, d.id) :
              Copied(enriched_article, d.source, NormalizedFields)

\* C35: each stage copies forward every field of its input unchanged, the
\* content hash of the parser is the one of the normalized, enriched and
\* indexed records, and the title of the cleaned record equals the title of
\* the raw record.
C35_FieldsCopied ==
    /\ CopiedForward
    /\ \A i \in DOMAIN cleanedTopic :
          \A raw \in ById(rawTopic, cleanedTopic[i].value.id) :
              cleanedTopic[i].value.title = raw.title

\* C35 amended: as above, but the title of the cleaned record is the title
\* of the raw record without its leading and trailing whitespace.
C35_FieldsCopiedTitleStripped ==
    /\ CopiedForward
    /\ \A i \in DOMAIN cleanedTopic :
          \A raw \in ById(rawTopic, cleanedTopic[i].value.id) :
              cleanedTopic[i].value.title = Strip(raw.title)

\* the article with the padded title is indexed, its title stripped, with
\* the content hash the parser gave it
C35_Witness ==
    \E d \in esDocs :
        /\ d.id = "id2"
        /\ d.source.title = <<"n", "A">>
        /\ \E raw \in ById(rawTopic, "id2") : raw.title # d.source.title
        /\ \E cleaned_article \in ById(cleanedTopic, "id2") :
              d.source.content_hash = cleaned_article.content_hash

\* the output metadata has every key of the input metadata with its value,
\* and the one key added
Grown(input, output, added) ==
    /\ \A k \in DOMAIN input : k \in DOMAIN output /\ output[k] = input[k]
    /\ DOMAIN output \ DOMAIN input = {added}

\* C36: metadata only grows: every key of the metadata a stage consumed is in
\* the stage's output metadata with the same value, and the stage adds
\* exactly one new key, normalization at the normalizer and enrichment at the
\* enricher, also when the input metadata already has a key of that name.
C36_MetadataGrows ==
    /\ \A i \in DOMAIN normalizedTopic :
          \A cleaned_article \in ById(cleanedTopic, normalizedTopic[i].value.id) :
              Grown(cleaned_article.metadata,
                    normalizedTopic[i].value.metadata, "normalization")
    /\ \A i \in DOMAIN enrichedTopic :
          \A normalized_article \in ById(normalizedTopic, enrichedTopic[i].value.id) :
              Grown(normalized_article.metadata,
                    enrichedTopic[i].value.metadata, "enrichment")

\* C37: when the summary call fails, the summary is the first two sentences
\* of the text, and it is the title when the text contains no sentence, as
\* an empty text does.
C37_FallbackSummary ==
    method = "fallback" =>
        IF \A i \in DOMAIN article_text : article_text[i] \in {" ", "."}
        THEN submitted = TitleA
        ELSE submitted =
                 JoinDotSpace(Prefix(SplitDot(article_text), 2)) \o <<".">>

\* the positions of '.' among the first max_chars characters of the text
DotsWithin(text, max_chars) ==
    {i \in 1..max_chars : i <= Len(text) /\ text[i] = "."}

\* C38: truncate_text returns the text unchanged when its length is at most
\* the cap; otherwise the prefix that ends at the last '.' among the first
\* cap characters when there is one, and the first cap characters followed
\* by "..." when there is none; the caps are 2000 for summary, topics and
\* entities, 1500 for sentiment and 1000 for embeddings.
C38_Truncation ==
    method \in Calls =>
        LET max_chars == CASE method \in {"summary", "topics", "entities"} -> 2000
                           [] method = "sentiment" -> 1500
                           [] method = "embeddings" -> 1000
            dots == DotsWithin(article_text, max_chars)
        IN  IF Len(article_text) <= max_chars THEN submitted = article_text
            ELSE IF dots # {}
            THEN submitted =
                     SubSeq(article_text, 1,
                            CHOOSE i \in dots : \A j \in dots : j <= i)
            ELSE submitted =
                     SubSeq(article_text, 1, max_chars) \o <<".", ".", ".">>

\* a text longer than the sentiment cap, with a '.' at its start and one at
\* the cap, is cut at the cap
C38_Witness ==
    /\ method = "sentiment"
    /\ Len(article_text) > 1500
    /\ DotsWithin(article_text, 1500) = {1, 1500}
    /\ Len(submitted) = 1500
    /\ submitted[1500] = "."

\* C39: the text submitted to a model call is never longer than the call's
\* cap.
C39_WithinCap ==
    method \in Calls => Len(submitted) <= MaxChars(method)

\* what the dedup key of a raw article is meant to tell apart: the title and
\* the cleaned text, each trimmed and lowercased
KeyPair(raw_article) ==
    <<Lower(Strip(raw_article.title)),
      Lower(Strip(PreparedOf(raw_article).text))>>

\* the raw article with the id
RawById(id) == CHOOSE raw \in ById(rawTopic, id) : TRUE

\* C40: the parser does not suppress an article as a duplicate of a
\* different article: an article dropped as a duplicate has the trimmed,
\* lowercased title and text of every article accepted under its dedup key.
C40_NoFalseDuplicate ==
    \A d \in dropLog :
        d.reason = "duplicate" =>
            \A a \in acceptLog :
                a.hash = PreparedOf(RawById(d.id)).content_hash =>
                    KeyPair(RawById(a.id)) = KeyPair(RawById(d.id))

====
